---- MODULE Spec2Model ----
(***************************************************************************)
(* Verification model of the MCA company-name-check automation:            *)
(* the resilient click / text-entry primitives, the CAPTCHA loop, the      *)
(* login routine, the NIC multi-code selection, the result scraper and     *)
(* the check_name wrapper with its browser-session life cycle.             *)
(*                                                                         *)
(* Each component is a state machine over its own variables; the browser   *)
(* and the portal are the environment, whose answers are drawn with \E.    *)
(* Exceptions are modelled by their class names, "None" meaning a normal   *)
(* return.                                                                 *)
(***************************************************************************)
EXTENDS Integers, Sequences, FiniteSets, TLC

VARIABLES
    \* _click_element
    clk_pc, clk_retries, clk_guard, clk_attempt, clk_exc, clk_native, clk_js,
    clk_shots, clk_hist,
    \* _send_text
    st_pc, st_keys, st_clear, st_retries, st_attempt, st_exc, st_field, st_ops,
    st_shots, st_mismatch, st_staleAfter,
    \* handle_captcha_on_page
    cap_pc, cap_max, cap_attempt, cap_result, cap_iter, cap_submits,
    cap_incorrect, cap_accepted, cap_other, cap_refresh, cap_field, cap_shots,
    cap_lastSolve, cap_lastRefresh, cap_before,
    \* login_to_mca_and_verify
    lg_pc, lg_user, lg_pass, lg_path, lg_imgWait, lg_captcha, lg_result, lg_ops,
    lg_url, lg_caught, lg_raised,
    \* select_nic_codes_dynamic
    nic_pc, nic_raw, nic_idx, nic_checked, nic_clicks, nic_sizes, nic_done,
    nic_stepFailed, nic_addCalls, nic_exc, nic_shots,
    \* scrape_all_tabs
    sc_pc, sc_idx, sc_result, sc_env, sc_exc, sc_shots, sc_out, sc_saved,
    \* check_name and initialize_browser
    cn_pc, cn_variant, cn_session, cn_initDriver, cn_driver, cn_quits, cn_step,
    cn_log, cn_exc, cn_initFailed, cn_response, cn_login, cn_afterLogin,
    \* concurrent check_name requests
    rq_pc, rq_name, rq_top, rq_meta, rq_driver, rq_owner, rq_open, rq_next,
    rq_uses, rq_typed,
    \* check_name wrappers and the app's result analysis
    ap_pc, ap_variant, ap_name, ap_scraped, ap_exc, ap_llmAvailable, ap_attempt,
    ap_llm, ap_verdict, ap_response,
    \* check_login_required
    lr_pc, lr_url, lr_probe, lr_result,
    \* _select_dropdown_option
    dd_pc, dd_step, dd_hasValue, dd_hasText, dd_ops, dd_exc, dd_shots,
    \* _execute_robust_step
    rs_pc, rs_max, rs_has, rs_attempt, rs_last, rs_actions, rs_shots, rs_exc, rs_ran,
    \* check_name: the except Exception clause
    ev_pc, ev_class, ev_msg, ev_response,
    \* _save_screenshot_on_error
    ss_pc, ss_dir, ss_session, ss_write, ss_orig, ss_exc, ss_log, ss_out

ssVars ==
    <<ss_pc, ss_dir, ss_session, ss_write, ss_orig, ss_exc, ss_log, ss_out>>

evVars ==
    <<ev_pc, ev_class, ev_msg, ev_response>>

rsVars ==
    <<rs_pc, rs_max, rs_has, rs_attempt, rs_last, rs_actions, rs_shots, rs_exc, rs_ran>>

ddVars ==
    <<dd_pc, dd_step, dd_hasValue, dd_hasText, dd_ops, dd_exc, dd_shots>>

lrVars ==
    <<lr_pc, lr_url, lr_probe, lr_result>>

apVars ==
    <<ap_pc, ap_variant, ap_name, ap_scraped, ap_exc,
      ap_llmAvailable, ap_attempt, ap_llm, ap_verdict, ap_response>>

rqVars ==
    <<rq_pc, rq_name, rq_top, rq_meta, rq_driver,
      rq_owner, rq_open, rq_next, rq_uses, rq_typed>>

cnVars == <<cn_pc, cn_variant, cn_session, cn_initDriver, cn_driver, cn_quits,
            cn_step, cn_log, cn_exc, cn_initFailed, cn_response, cn_login,
            cn_afterLogin>>

scVars == <<sc_pc, sc_idx, sc_result, sc_env, sc_exc, sc_shots, sc_out, sc_saved>>

nicVars == <<nic_pc, nic_raw, nic_idx, nic_checked, nic_clicks, nic_sizes,
             nic_done, nic_stepFailed, nic_addCalls, nic_exc, nic_shots>>

lgVars == <<lg_pc, lg_user, lg_pass, lg_path, lg_imgWait, lg_captcha, lg_result,
            lg_ops, lg_url, lg_caught, lg_raised>>

capVars == <<cap_pc, cap_max, cap_attempt, cap_result, cap_iter, cap_submits,
             cap_incorrect, cap_accepted, cap_other, cap_refresh, cap_field,
             cap_shots, cap_lastSolve, cap_lastRefresh, cap_before>>

stVars == <<st_pc, st_keys, st_clear, st_retries, st_attempt, st_exc, st_field,
            st_ops, st_shots, st_mismatch, st_staleAfter>>

clkVars == <<clk_pc, clk_retries, clk_guard, clk_attempt, clk_exc, clk_native,
             clk_js, clk_shots, clk_hist>>

\* The variables each component leaves alone.
clkOthers == <<stVars, capVars, lgVars, nicVars, scVars, cnVars, rqVars, apVars, lrVars, ddVars, rsVars, evVars, ssVars>>
stOthers == <<clkVars, capVars, lgVars, nicVars, scVars, cnVars, rqVars, apVars, lrVars, ddVars, rsVars, evVars, ssVars>>
capOthers == <<clkVars, stVars, lgVars, nicVars, scVars, cnVars, rqVars, apVars, lrVars, ddVars, rsVars, evVars, ssVars>>
lgOthers == <<clkVars, stVars, capVars, nicVars, scVars, cnVars, rqVars, apVars, lrVars, ddVars, rsVars, evVars, ssVars>>
nicOthers == <<clkVars, stVars, capVars, lgVars, scVars, cnVars, rqVars, apVars, lrVars, ddVars, rsVars, evVars, ssVars>>
scOthers == <<clkVars, stVars, capVars, lgVars, nicVars, cnVars, rqVars, apVars, lrVars, ddVars, rsVars, evVars, ssVars>>
cnOthers == <<clkVars, stVars, capVars, lgVars, nicVars, scVars, rqVars, apVars, lrVars, ddVars, rsVars, evVars, ssVars>>
rqOthers == <<clkVars, stVars, capVars, lgVars, nicVars, scVars, cnVars, apVars, lrVars, ddVars, rsVars, evVars, ssVars>>
apOthers == <<clkVars, stVars, capVars, lgVars, nicVars, scVars, cnVars, rqVars, lrVars, ddVars, rsVars, evVars, ssVars>>
lrOthers == <<clkVars, stVars, capVars, lgVars, nicVars, scVars, cnVars, rqVars, apVars, ddVars, rsVars, evVars, ssVars>>
ddOthers == <<clkVars, stVars, capVars, lgVars, nicVars, scVars, cnVars, rqVars, apVars, lrVars, rsVars, evVars, ssVars>>
rsOthers == <<clkVars, stVars, capVars, lgVars, nicVars, scVars, cnVars, rqVars, apVars, lrVars, ddVars, evVars, ssVars>>
evOthers == <<clkVars, stVars, capVars, lgVars, nicVars, scVars, cnVars, rqVars, apVars, lrVars, ddVars, rsVars, ssVars>>
ssOthers == <<clkVars, stVars, capVars, lgVars, nicVars, scVars, cnVars, rqVars, apVars, lrVars, ddVars, rsVars, evVars>>

----------------------------------------------------------------------------
(* Program constants and exception classes *)

DEFAULT_RETRIES == 3

Stale == "StaleElementReferenceException"
Timeout == "TimeoutException"
NoSuchElement == "NoSuchElementException"
NotInteractable == "ElementNotInteractableException"
ClickIntercepted == "ElementClickInterceptedException"
WebDriverError == "WebDriverException"
TypeError == "TypeError"

----------------------------------------------------------------------------
(* _click_element: resilient click with scripted fallback *)

\* What the browser does in one attempt of the click loop.  A field is "na"
\* when the attempt never gets to that call.
ClickEnvs ==
    { [wait |-> Timeout, scroll |-> "na", native |-> "na", js |-> "na"] }
    \cup { [wait |-> "ok", scroll |-> s, native |-> "na", js |-> "na"] :
            s \in {Stale, WebDriverError} }
    \cup { [wait |-> "ok", scroll |-> "ok", native |-> n, js |-> "na"] :
            n \in {"ok", Stale, ClickIntercepted} }
    \cup { [wait |-> "ok", scroll |-> "ok", native |-> NotInteractable, js |-> j] :
            j \in {"ok", Stale, WebDriverError} }

\* The exception that leaves the body of one attempt ("None": the body
\* reached its return statement).
ClickBodyExc_nofallback(e) ==
    IF e.wait # "ok" THEN e.wait
    ELSE IF e.scroll # "ok" THEN e.scroll
    ELSE IF e.native = "ok" THEN "None"
    ELSE e.native

ClickBodyExc(e) ==
    IF e.wait # "ok" THEN e.wait
    ELSE IF e.scroll # "ok" THEN e.scroll
    ELSE IF e.native = "ok" THEN "None"
    ELSE IF e.native = NotInteractable
         THEN (IF e.js = "ok" THEN "None" ELSE e.js)
    ELSE e.native

\* Screenshots taken while one attempt runs and is handled.
ClickAttemptShots(e) ==
    (IF e.wait = Timeout THEN <<"element_not_clickable">> ELSE <<>>)
    \o (IF ClickBodyExc(e) \notin {"None", Stale} THEN <<"click_error">> ELSE <<>>)

\* _wait_for_page_to_load: ready-state wait, then the optional guard element.
PageLoadExc(ready, guard, guardVisible) ==
    IF ~ready THEN Timeout
    ELSE IF guard /\ ~guardVisible THEN Timeout
    ELSE "None"

PageLoadShots(ready, guard, guardVisible) ==
    IF ~ready THEN <<"page_load_timeout">>
    ELSE IF guard /\ ~guardVisible THEN <<"guard_element_not_visible">>
    ELSE <<>>

ClickInit ==
    /\ clk_pc = "call"
    /\ clk_retries \in 1..DEFAULT_RETRIES
    /\ clk_guard \in BOOLEAN
    /\ clk_attempt = 0
    /\ clk_exc = "None"
    /\ clk_native = 0
    /\ clk_js = 0
    /\ clk_shots = <<>>
    /\ clk_hist = <<>>

ClickIdle ==
    /\ clk_pc = "idle"
    /\ clk_retries = DEFAULT_RETRIES
    /\ clk_guard = FALSE
    /\ clk_attempt = 0
    /\ clk_exc = "None"
    /\ clk_native = 0
    /\ clk_js = 0
    /\ clk_shots = <<>>
    /\ clk_hist = <<>>

ClickPageLoad ==
    /\ UNCHANGED clkOthers
    /\ clk_pc = "call"
    /\ \E ready \in BOOLEAN, guardVisible \in BOOLEAN :
         LET x == PageLoadExc(ready, clk_guard, guardVisible) IN
         /\ clk_shots' = clk_shots \o PageLoadShots(ready, clk_guard, guardVisible)
         /\ clk_exc' = x
         /\ clk_pc' = IF x = "None" THEN "loop" ELSE "raised"
    /\ UNCHANGED <<clk_retries, clk_guard, clk_attempt, clk_native, clk_js, clk_hist>>

ClickAttempt ==
    /\ UNCHANGED clkOthers
    /\ clk_pc = "loop"
    /\ clk_attempt < clk_retries
    /\ \E e \in ClickEnvs :
         LET x == ClickBodyExc(e) IN
         /\ clk_hist' = Append(clk_hist, e)
         /\ clk_native' = clk_native + (IF e.native # "na" THEN 1 ELSE 0)
         /\ clk_js' = clk_js + (IF e.js # "na" THEN 1 ELSE 0)
         /\ clk_shots' = clk_shots \o ClickAttemptShots(e)
         /\ IF x = "None"
            THEN /\ clk_pc' = "returned"
                 /\ UNCHANGED <<clk_attempt, clk_exc>>
            ELSE IF x = Stale
            THEN /\ clk_attempt' = clk_attempt + 1
                 /\ UNCHANGED <<clk_pc, clk_exc>>
            ELSE /\ clk_pc' = "raised"
                 /\ clk_exc' = NotInteractable
                 /\ UNCHANGED clk_attempt
    /\ UNCHANGED <<clk_retries, clk_guard>>

ClickExhausted_early ==
    /\ UNCHANGED clkOthers
    /\ clk_pc = "loop"
    /\ clk_attempt >= 1
    /\ clk_shots' = Append(clk_shots, "click_failure_final")
    /\ clk_exc' = NotInteractable
    /\ clk_pc' = "raised"
    /\ UNCHANGED <<clk_retries, clk_guard, clk_attempt, clk_native, clk_js, clk_hist>>

ClickExhausted ==
    /\ UNCHANGED clkOthers
    /\ clk_pc = "loop"
    /\ clk_attempt = clk_retries
    /\ clk_shots' = Append(clk_shots, "click_failure_final")
    /\ clk_exc' = NotInteractable
    /\ clk_pc' = "raised"
    /\ UNCHANGED <<clk_retries, clk_guard, clk_attempt, clk_native, clk_js, clk_hist>>

ClickNext == ClickPageLoad \/ ClickAttempt \/ ClickExhausted

\* The exception a whole _click_element call ends with, for callers: the
\* page-load outcome and one environment per attempt.
RECURSIVE ClickLoopExc(_, _, _)
ClickLoopExc(envs, i, retries) ==
    IF i > retries \/ i > Len(envs) THEN NotInteractable
    ELSE LET x == ClickBodyExc(envs[i]) IN
         IF x = "None" THEN "None"
         ELSE IF x = Stale THEN ClickLoopExc(envs, i + 1, retries)
         ELSE NotInteractable

ClickElementExc(load, envs, retries) ==
    IF load # "None" THEN load ELSE ClickLoopExc(envs, 1, retries)

----------------------------------------------------------------------------
(* _send_text: text entry with readback verification and scripted fallback *)

PyNone == "<None>"

\* Python truthiness of the keys argument: None and "" are falsy.
Falsy(keys) == keys = PyNone \/ keys = ""

Count(seq, x) == Cardinality({i \in DOMAIN seq : seq[i] = x})

\* The browser calls of one attempt, in program order:
\* 1 wait-for-clickable, 2 focus click, 3 clear, 4 send_keys, 5 readback,
\* 6 scripted value assignment, 7 synthetic input event, 8 synthetic change
\* event, 9 second readback.
SendStageOps == <<"wait", "click", "clear", "send_keys", "get_value",
                  "js_value", "js_input", "js_change", "get_value2">>

\* What the browser does in one attempt: the call that fails (0: none) and
\* its exception, whether the page keeps the typed keys, and whether the
\* scripted assignment takes effect.
SendEnvs ==
    { [failAt |-> 0, exc |-> "None", page |-> p, js |-> j] :
        p \in {"accept", "drop"}, j \in {"set", "ignored"} }
    \cup { [failAt |-> 1, exc |-> Timeout, page |-> "accept", js |-> "set"] }
    \cup { [failAt |-> k, exc |-> x, page |-> p, js |-> j] :
            k \in 2..9, x \in {Stale, WebDriverError},
            p \in {"accept", "drop"}, j \in {"set", "ignored"} }

SendPassed(e, k) == e.failAt = 0 \/ e.failAt > k
SendReached(e, k) == e.failAt = 0 \/ e.failAt >= k

FieldAfterClear(field, clear, e) ==
    IF clear /\ SendPassed(e, 3) THEN "" ELSE field

FieldAfterSend(field, keys, clear, e) ==
    IF SendPassed(e, 4) /\ e.page = "accept"
    THEN FieldAfterClear(field, clear, e) \o keys
    ELSE FieldAfterClear(field, clear, e)

\* entered_value != keys, evaluated when the first readback returned.
ReadbackMismatch(field, keys, clear, e) ==
    SendPassed(e, 5) /\ FieldAfterSend(field, keys, clear, e) # keys

FieldAfterAttempt(field, keys, clear, e) ==
    IF ReadbackMismatch(field, keys, clear, e) /\ SendPassed(e, 6) /\ e.js = "set"
    THEN keys
    ELSE FieldAfterSend(field, keys, clear, e)

\* Stage k is part of this attempt's path.
SendStageExists_always(field, keys, clear, e, k) ==
    IF k = 3 THEN clear ELSE TRUE

SendStageExists(field, keys, clear, e, k) ==
    IF k = 3 THEN clear
    ELSE IF k >= 6 THEN ReadbackMismatch(field, keys, clear, e)
    ELSE TRUE

\* An environment is one the attempt can meet: the failing call exists on
\* the path, and the unused answers are held at a fixed value.
SendEnvValid(field, keys, clear, e) ==
    /\ e.failAt # 0 => SendStageExists(field, keys, clear, e, e.failAt)
    /\ ~SendPassed(e, 4) => e.page = "accept"
    /\ ~(ReadbackMismatch(field, keys, clear, e) /\ SendPassed(e, 6)) => e.js = "set"

SendAttemptOps(field, keys, clear, e) ==
    SelectSeq(SendStageOps,
              LAMBDA op : \E k \in 1..9 :
                  /\ SendStageOps[k] = op
                  /\ SendStageExists(field, keys, clear, e, k)
                  /\ SendReached(e, k))

SendAttemptShots(e) ==
    (IF e.failAt = 1 THEN <<"element_not_clickable">> ELSE <<>>)
    \o (IF e.exc \notin {"None", Stale} THEN <<"send_text_error">> ELSE <<>>)

Texts == {"", "a"}

SendTextInit ==
    /\ st_pc = "call"
    /\ st_keys \in Texts \cup {PyNone}
    /\ st_clear \in BOOLEAN
    /\ st_retries \in 1..DEFAULT_RETRIES
    /\ st_attempt = 0
    /\ st_exc = "None"
    /\ st_field \in {"", "x"}
    /\ st_ops = <<>>
    /\ st_shots = <<>>
    /\ st_mismatch = 0
    /\ st_staleAfter = 0

SendTextIdle ==
    /\ st_pc = "idle"
    /\ st_keys = ""
    /\ st_clear = TRUE
    /\ st_retries = DEFAULT_RETRIES
    /\ st_attempt = 0
    /\ st_exc = "None"
    /\ st_field = ""
    /\ st_ops = <<>>
    /\ st_shots = <<>>
    /\ st_mismatch = 0
    /\ st_staleAfter = 0

\* The guard at the top of _send_text: empty or None keys are logged and
\* the call returns without touching the browser.
SendTextCheck ==
    /\ UNCHANGED stOthers
    /\ st_pc = "call"
    /\ st_pc' = IF Falsy(st_keys) THEN "returned" ELSE "loop"
    /\ UNCHANGED <<st_keys, st_clear, st_retries, st_attempt, st_exc, st_field,
                   st_ops, st_shots, st_mismatch, st_staleAfter>>

SendTextAttempt ==
    /\ UNCHANGED stOthers
    /\ st_pc = "loop"
    /\ st_attempt < st_retries
    /\ \E e \in SendEnvs :
         /\ SendEnvValid(st_field, st_keys, st_clear, e)
         /\ LET mm == ReadbackMismatch(st_field, st_keys, st_clear, e) IN
            /\ st_ops' = st_ops \o SendAttemptOps(st_field, st_keys, st_clear, e)
            /\ st_field' = FieldAfterAttempt(st_field, st_keys, st_clear, e)
            /\ st_shots' = st_shots \o SendAttemptShots(e)
            /\ st_mismatch' = st_mismatch + (IF mm THEN 1 ELSE 0)
            /\ st_staleAfter' = st_staleAfter + (IF mm /\ e.exc = Stale THEN 1 ELSE 0)
            /\ IF e.exc = "None"
               THEN /\ st_pc' = "returned"
                    /\ UNCHANGED <<st_attempt, st_exc>>
               ELSE IF e.exc = Stale
               THEN /\ st_attempt' = st_attempt + 1
                    /\ UNCHANGED <<st_pc, st_exc>>
               ELSE /\ st_pc' = "raised"
                    /\ st_exc' = NotInteractable
                    /\ UNCHANGED st_attempt
    /\ UNCHANGED <<st_keys, st_clear, st_retries>>

SendTextExhausted ==
    /\ UNCHANGED stOthers
    /\ st_pc = "loop"
    /\ st_attempt = st_retries
    /\ st_shots' = Append(st_shots, "send_text_failure_final")
    /\ st_exc' = NotInteractable
    /\ st_pc' = "raised"
    /\ UNCHANGED <<st_keys, st_clear, st_retries, st_attempt, st_field, st_ops,
                   st_mismatch, st_staleAfter>>

SendTextNext == SendTextCheck \/ SendTextAttempt \/ SendTextExhausted

----------------------------------------------------------------------------
(* handle_captcha_on_page: the CAPTCHA solve-and-submit loop *)

\* The attempt budgets explored, and the cap on loop iterations.
MaxAttemptsBound == 3
MaxCaptchaIterations == 5

\* What the solver service, the browser and the portal do in one iteration.
\* A field is "na" (or FALSE) when the iteration never gets to that call.
\*   solve    _solve_captcha_with_api: "text" (True, text typed into the
\*            input), "AutomationError" (raised), or False because of a
\*            "network_error", an "http_error" or a reply with "no_result"
\*   submit   exception of the click on the submit button
\*   dom      wait_for_dom_ready(7): "ok", "timeout" or a raised error
\*   present, displayed, hasText, errStale
\*            the error element: found within 2 s, is_displayed(), text
\*            contains "The captcha entered is incorrect", or stale on access
\*   refresh  exception of the click on the refresh button on the main path
\*   hrefresh outcome of the refresh click tried inside an except handler
CapEnvBase ==
    [solve |-> "na", submit |-> "na", dom |-> "na", present |-> FALSE,
     displayed |-> FALSE, hasText |-> FALSE, errStale |-> FALSE,
     refresh |-> "na", hrefresh |-> "na"]

ClickExcs == {"None", Timeout, NotInteractable}

\* The ways the solve-service call fails and _solve_captcha_with_api
\* returns False.
SolveFailures == {"no_result", "network_error", "http_error"}

\* Screenshots taken inside _solve_captcha_with_api: its RequestException
\* handler takes one, the branch for a reply without result does not.
SolveShots(solve) == IF solve \in {"network_error", "http_error"} THEN 1 ELSE 0

CapEnvsSolveFail ==
    { [CapEnvBase EXCEPT !.solve = "AutomationError", !.hrefresh = h] :
        h \in {"na", "ok", "fail"} }
    \cup { [CapEnvBase EXCEPT !.solve = f, !.refresh = r, !.hrefresh = h] :
        f \in SolveFailures, r \in ClickExcs, h \in {"na", "ok", "fail"} }

CapEnvsSubmitFail ==
    { [CapEnvBase EXCEPT !.solve = "text", !.submit = x, !.hrefresh = h] :
        x \in {Timeout, NotInteractable}, h \in {"na", "ok", "fail"} }
    \cup { [CapEnvBase EXCEPT !.solve = "text", !.submit = "None",
                              !.dom = WebDriverError, !.hrefresh = h] :
        h \in {"na", "ok", "fail"} }

CapEnvsAnswered ==
    { [CapEnvBase EXCEPT !.solve = "text", !.submit = "None", !.dom = d,
                         !.present = pr, !.displayed = di, !.hasText = tx,
                         !.errStale = st, !.refresh = r, !.hrefresh = h] :
        d \in {"ok", "timeout"}, pr \in BOOLEAN, di \in BOOLEAN, tx \in BOOLEAN,
        st \in BOOLEAN, r \in ClickExcs \cup {"na"}, h \in {"na", "ok", "fail"} }

CapEnvs == CapEnvsSolveFail \cup CapEnvsSubmitFail \cup CapEnvsAnswered

\* The 'incorrect captcha' test on the error element.
CaptchaIncorrect_either(displayed, hasText) == displayed \/ hasText

CaptchaIncorrect(displayed, hasText) == displayed /\ hasText

\* Where one iteration of the while loop ends:
\*   "accepted"   return True
\*   "continue"   the `continue` after an incorrect CAPTCHA
\*   "next"       the solver gave nothing; refreshed, attempt += 1
\*   "timeout"    except (TimeoutException, NoSuchElementException)
\*   "general"    except Exception
CapBranch(e) ==
    IF e.solve = "AutomationError" THEN "general"
    ELSE IF e.solve \in SolveFailures
    THEN (IF e.refresh = "None" THEN "next"
          ELSE IF e.refresh = Timeout THEN "timeout" ELSE "general")
    ELSE IF e.submit = Timeout THEN "timeout"
    ELSE IF e.submit # "None" THEN "general"
    ELSE IF e.dom = WebDriverError THEN "general"
    ELSE IF ~e.present THEN "accepted"
    ELSE IF e.errStale THEN "general"
    ELSE IF ~CaptchaIncorrect(e.displayed, e.hasText) THEN "accepted"
    ELSE IF e.refresh = "None" THEN "continue"
    ELSE IF e.refresh = Timeout THEN "accepted"
    ELSE "general"

\* The loop counter after the iteration.
CapAttemptAfter_nextFree(branch, attempt) ==
    IF branch \in {"timeout", "general"} THEN attempt + 1 ELSE attempt

CapAttemptAfter(branch, attempt) ==
    IF branch \in {"next", "timeout", "general"} THEN attempt + 1 ELSE attempt

\* The error-element answers and the main-path refresh click are looked at
\* only on the paths that reach them; the handler refresh is tried in the
\* timeout handler always and in the general handler while attempts remain.
CapEnvValid(e, attempt, max) ==
    LET b == CapBranch(e)
        answered == e.solve = "text" /\ e.submit = "None" /\ e.dom # WebDriverError
        looked == answered /\ e.present
        judged == looked /\ ~e.errStale
        refreshed == \/ e.solve \in SolveFailures
                     \/ judged /\ CaptchaIncorrect(e.displayed, e.hasText)
    IN  /\ ~looked => ~e.errStale
        /\ ~judged => (~e.displayed /\ ~e.hasText)
        /\ refreshed <=> e.refresh # "na"
        /\ (e.hrefresh # "na") <=>
              (\/ b = "timeout"
               \/ b = "general" /\ attempt + 1 < max)

\* The iteration is one in which the portal answered a solved and submitted
\* CAPTCHA and nothing else went wrong.
CapClean(e) ==
    /\ e.solve = "text" /\ e.submit = "None" /\ e.dom \in {"ok", "timeout"}
    /\ ~e.errStale
    /\ e.refresh \in {"na", "None"}

\* The portal showed the 'incorrect captcha' indicator.
CapShownIncorrect(e) == e.present /\ e.displayed /\ e.hasText

\* _send_text as seen by a caller whose text entry meets no browser error:
\* falsy keys leave the field alone, other keys end up in it.
SendTextValue(field, keys) == IF Falsy(keys) THEN field ELSE keys

CaptchaInit ==
    /\ cap_pc = "loop"
    /\ cap_max \in 1..MaxAttemptsBound
    /\ cap_attempt = 0
    /\ cap_result = FALSE
    /\ cap_iter = 0
    /\ cap_submits = 0
    /\ cap_incorrect = 0
    /\ cap_accepted = 0
    /\ cap_other = 0
    /\ cap_refresh = 0
    /\ cap_field = ""
    /\ cap_shots = 0
    /\ cap_lastSolve = "na"
    /\ cap_lastRefresh = "na"
    /\ cap_before = 0

CaptchaIdle ==
    /\ cap_pc = "idle"
    /\ cap_max = DEFAULT_RETRIES
    /\ cap_attempt = 0
    /\ cap_result = FALSE
    /\ cap_iter = 0
    /\ cap_submits = 0
    /\ cap_incorrect = 0
    /\ cap_accepted = 0
    /\ cap_other = 0
    /\ cap_refresh = 0
    /\ cap_field = ""
    /\ cap_shots = 0
    /\ cap_lastSolve = "na"
    /\ cap_lastRefresh = "na"
    /\ cap_before = 0

CaptchaIteration ==
    /\ UNCHANGED capOthers
    /\ cap_pc = "loop"
    /\ cap_attempt < cap_max
    /\ cap_iter < MaxCaptchaIterations
    /\ \E e \in CapEnvs :
         /\ CapEnvValid(e, cap_attempt, cap_max)
         /\ LET b == CapBranch(e)
                a == CapAttemptAfter(b, cap_attempt)
                typed == IF e.solve = "text" THEN "txt" ELSE cap_field
            IN  /\ cap_iter' = cap_iter + 1
                /\ cap_submits' = cap_submits + (IF e.submit = "None" THEN 1 ELSE 0)
                /\ cap_incorrect' = cap_incorrect
                      + (IF CapClean(e) /\ CapShownIncorrect(e) THEN 1 ELSE 0)
                /\ cap_accepted' = cap_accepted
                      + (IF CapClean(e) /\ ~CapShownIncorrect(e) THEN 1 ELSE 0)
                /\ cap_other' = cap_other + (IF CapClean(e) THEN 0 ELSE 1)
                /\ cap_refresh' = cap_refresh
                      + (IF e.refresh = "None" THEN 1 ELSE 0)
                      + (IF e.hrefresh = "ok" THEN 1 ELSE 0)
                /\ cap_field' = IF e.refresh # "na" /\ e.solve = "text"
                                THEN SendTextValue(typed, "")
                                ELSE typed
                /\ cap_lastSolve' = e.solve
                /\ cap_lastRefresh' = e.refresh
                /\ cap_before' = cap_attempt
                /\ cap_shots' = cap_shots
                      + SolveShots(e.solve)
                      + (IF e.dom = "timeout" THEN 1 ELSE 0)
                      + (IF b \in {"timeout", "general"} THEN 1 ELSE 0)
                /\ cap_attempt' = a
                /\ cap_result' = (b = "accepted")
                /\ cap_pc' = IF b = "accepted" \/ a >= cap_max THEN "done" ELSE "loop"
    /\ UNCHANGED cap_max

CaptchaNext == CaptchaIteration

----------------------------------------------------------------------------
(* login_to_mca_and_verify: the login routine *)

\* The browser calls of wait_for_dom_ready: the ready-state wait and, on a
\* timeout, the diagnostic screenshot.
DomReadyOps(dom) ==
    IF dom = "ok" THEN <<"dom_ready">>
    ELSE <<"dom_ready", "screenshot_dom_not_ready_timeout">>

\* The credential test `not username or not password`.
CredentialsMissing_passwordOnly(username, password) == Falsy(password)

CredentialsMissing_both(username, password) == Falsy(username) /\ Falsy(password)

CredentialsMissing(username, password) == Falsy(username) \/ Falsy(password)

\* The browser calls of a _send_text call made by the login routine: falsy
\* keys return before any browser call.
LoginSendOps(keys, op) == IF Falsy(keys) THEN <<>> ELSE <<op>>

\* The except Exception handler that wraps the whole routine.
LoginUnexpectedOps == <<"screenshot_unexpected_login_error">>

\* The except clause of the routine that takes an exception raised at a
\* place of its body: "fields" is the inner try around the credential form,
\* "body" the rest of the outer try. The exceptions of the browser, of the
\* CAPTCHA service and of len(None) are all instances of Exception.
LoginHandler_fieldsOnly(place, exc) ==
    IF place = "fields" /\ exc = Timeout THEN "fields_timeout"
    ELSE IF place = "fields" /\ exc = NoSuchElement THEN "fields_not_found"
    ELSE "propagates"

LoginHandler(place, exc) ==
    IF place = "fields" /\ exc = Timeout THEN "fields_timeout"
    ELSE IF place = "fields" /\ exc = NoSuchElement THEN "fields_not_found"
    ELSE "unexpected"

\* The browser calls of each except clause.
LoginHandlerOps(h) ==
    IF h = "fields_timeout" THEN <<"screenshot_login_fields_timeout">>
    ELSE IF h = "fields_not_found" THEN <<"screenshot_login_fields_not_found">>
    ELSE IF h = "unexpected" THEN LoginUnexpectedOps
    ELSE <<>>

\* An exception raised at a place after the browser calls `calls`: the
\* clause that takes it runs and the routine returns (driver, False); an
\* exception no clause takes leaves the routine.
LoginCaught(place, exc, calls) ==
    LET h == LoginHandler(place, exc)
    IN  /\ lg_ops' = lg_ops \o calls \o LoginHandlerOps(h)
        /\ lg_caught' = h
        /\ lg_raised' = IF h = "propagates" THEN exc ELSE "None"
        /\ lg_pc' = IF h = "propagates" THEN "raised" ELSE "done"

Credentials == {"", "u", PyNone}

LoginInit ==
    /\ lg_pc = "start"
    /\ lg_user \in Credentials
    /\ lg_pass \in Credentials
    /\ lg_path = "none"
    /\ lg_imgWait = "na"
    /\ lg_captcha = "na"
    /\ lg_result = FALSE
    /\ lg_ops = <<>>
    /\ lg_url = "unchecked"
    /\ lg_caught = "none"
    /\ lg_raised = "None"

LoginIdle ==
    /\ lg_pc = "idle"
    /\ lg_user = ""
    /\ lg_pass = ""
    /\ lg_path = "none"
    /\ lg_imgWait = "na"
    /\ lg_captcha = "na"
    /\ lg_result = FALSE
    /\ lg_ops = <<>>
    /\ lg_url = "unchecked"
    /\ lg_caught = "none"
    /\ lg_raised = "None"

\* driver.get(LOGIN_URL), wait_for_dom_ready, and the home-redirect test on
\* the location read back.
LoginNavigate ==
    /\ UNCHANGED lgOthers
    /\ UNCHANGED lg_url
    /\ lg_pc = "start"
    /\ \E get \in {"None", WebDriverError}, dom \in {"ok", "timeout", WebDriverError},
          url \in {"login", "home", "other"} :
         IF get # "None"
         THEN /\ LoginCaught("body", get, <<"get_login">>)
              /\ UNCHANGED lg_path
         ELSE IF dom \notin {"ok", "timeout"}
         THEN /\ LoginCaught("body", dom, <<"get_login", "dom_ready">>)
              /\ UNCHANGED lg_path
         ELSE /\ lg_ops' = <<"get_login">> \o DomReadyOps(dom) \o <<"current_url">>
              /\ lg_path' = IF url = "home" THEN "home" ELSE "form"
              /\ lg_pc' = IF url = "home" THEN "home" ELSE "form"
              /\ UNCHANGED <<lg_caught, lg_raised>>
    /\ UNCHANGED <<lg_user, lg_pass, lg_imgWait, lg_captcha, lg_result>>

\* The home-redirect shortcut: go straight to the application history page.
LoginHomeRedirect ==
    /\ UNCHANGED lgOthers
    /\ UNCHANGED lg_url
    /\ lg_pc = "home"
    /\ \E get \in {"None", WebDriverError}, dom \in {"ok", "timeout", WebDriverError} :
         IF get # "None"
         THEN LoginCaught("body", get, <<"get_history">>)
         ELSE IF dom \notin {"ok", "timeout"}
         THEN LoginCaught("body", dom, <<"get_history", "dom_ready">>)
         ELSE /\ lg_ops' = lg_ops \o <<"get_history">> \o DomReadyOps(dom)
              /\ lg_pc' = "verify"
              /\ UNCHANGED <<lg_caught, lg_raised>>
    /\ UNCHANGED <<lg_user, lg_pass, lg_path, lg_imgWait, lg_captcha, lg_result>>

\* The credential form: wait for the CAPTCHA image, read and test the
\* credentials, type the user id and the password.
LoginFillForm ==
    /\ UNCHANGED lgOthers
    /\ UNCHANGED lg_url
    /\ lg_pc = "form"
    /\ \E w \in {"ok", Timeout, NoSuchElement, WebDriverError},
          su \in {"None", NotInteractable}, sp \in {"None", NotInteractable} :
         /\ lg_imgWait' = w
         /\ IF w = Timeout
            THEN LoginCaught("fields", w, <<"wait_captcha_image",
                                           "screenshot_element_not_present">>)
            ELSE IF w # "ok"
            THEN LoginCaught("fields", w, <<"wait_captcha_image">>)
            ELSE IF lg_user = PyNone \/ lg_pass = PyNone
            THEN \* len(None)
                 LoginCaught("fields", TypeError, <<"wait_captcha_image">>)
            ELSE IF CredentialsMissing(lg_user, lg_pass)
            THEN /\ lg_ops' = lg_ops \o <<"wait_captcha_image",
                                         "screenshot_missing_credentials">>
                 /\ lg_pc' = "done"
                 /\ UNCHANGED <<lg_caught, lg_raised>>
            ELSE IF ~Falsy(lg_user) /\ su # "None"
            THEN LoginCaught("fields", su, <<"wait_captcha_image", "send_user">>)
            ELSE IF ~Falsy(lg_pass) /\ sp # "None"
            THEN LoginCaught("fields", sp,
                             <<"wait_captcha_image">>
                                 \o LoginSendOps(lg_user, "send_user")
                                 \o <<"send_pass">>)
            ELSE /\ lg_ops' = lg_ops \o <<"wait_captcha_image">>
                                     \o LoginSendOps(lg_user, "send_user")
                                     \o LoginSendOps(lg_pass, "send_pass")
                 /\ lg_pc' = "captcha"
                 /\ UNCHANGED <<lg_caught, lg_raised>>
    /\ UNCHANGED <<lg_user, lg_pass, lg_path, lg_captcha, lg_result>>

\* handle_captcha_on_page, whose verdict is only logged.
LoginCaptcha ==
    /\ UNCHANGED lgOthers
    /\ UNCHANGED lg_url
    /\ lg_pc = "captcha"
    /\ \E ok \in BOOLEAN :
         lg_captcha' = IF ok THEN "ok" ELSE "failed"
    /\ lg_ops' = Append(lg_ops, "captcha_loop")
    /\ lg_pc' = "verify"
    /\ UNCHANGED <<lg_caught, lg_raised>>
    /\ UNCHANGED <<lg_user, lg_pass, lg_path, lg_imgWait, lg_result>>

\* check_login_success_url_only: the location wait, the second location
\* read, and the diagnostic calls of a failed check.
\*   "reached"  the location contained the history path and still does
\*   "left"     it did when the wait returned, no more at the second read
\*   "timeout"  the wait timed out
\*   "error"    the wait raised another exception
UrlCheckResult_atWait(v) == v \in {"reached", "left"}

UrlCheckResult(v) == v = "reached"

UrlCheckOps(v) ==
    IF v = "reached" THEN <<"check_url", "current_url">>
    ELSE IF v = "left"
    THEN <<"check_url", "current_url", "screenshot_login_url_mismatch",
           "current_url", "title">>
    ELSE IF v = "timeout"
    THEN <<"check_url", "current_url", "screenshot_login_url_timeout",
           "current_url", "title">>
    ELSE <<"check_url", "screenshot_login_url_check_error", "current_url", "title">>

\* The calls of a failed check up to a location or title read that raises:
\* the read in the handler of the wait's timeout, or the routine's own reads
\* after a False verdict.
UrlCheckOpsRaised(v) ==
    IF v = "timeout" THEN <<"check_url", "current_url">>
    ELSE SubSeq(UrlCheckOps(v), 1, Len(UrlCheckOps(v)) - 1)

LoginVerify ==
    /\ UNCHANGED lgOthers
    /\ lg_pc = "verify"
    /\ \E dom \in {"ok", "timeout", WebDriverError},
          v \in {"reached", "left", "timeout", "error"},
          read \in {"None", WebDriverError} :
         IF dom \notin {"ok", "timeout"}
         THEN /\ LoginCaught("body", dom, <<"dom_ready">>)
              /\ UNCHANGED <<lg_result, lg_url>>
         ELSE IF ~UrlCheckResult(v) /\ read # "None"
         THEN /\ LoginCaught("body", read, DomReadyOps(dom) \o UrlCheckOpsRaised(v))
              /\ lg_url' = v
              /\ UNCHANGED lg_result
         ELSE /\ lg_ops' = lg_ops \o DomReadyOps(dom) \o UrlCheckOps(v)
              /\ lg_result' = UrlCheckResult(v)
              /\ lg_url' = v
              /\ lg_pc' = "done"
              /\ UNCHANGED <<lg_caught, lg_raised>>
    /\ UNCHANGED <<lg_user, lg_pass, lg_path, lg_imgWait, lg_captcha>>

LoginNext ==
    LoginNavigate \/ LoginHomeRedirect \/ LoginFillForm \/ LoginCaptcha \/ LoginVerify

----------------------------------------------------------------------------
(* select_nic_codes_dynamic: the multi-code picker *)

MaxCodes == 3

\* The comma-separated pieces of nic_codes_str, and str.strip() on them.
NicTokens == {"", " ", "A", " B", "C"}

Strip(t) == IF t = " " THEN "" ELSE IF t = " B" THEN "B" ELSE t

RECURSIVE NicCodes(_)
NicCodes(raw) ==
    IF raw = <<>> THEN <<>>
    ELSE IF Strip(Head(raw)) # ""
         THEN <<Strip(Head(raw))>> \o NicCodes(Tail(raw))
         ELSE NicCodes(Tail(raw))

RECURSIVE SeqsUpTo(_, _)
SeqsUpTo(S, n) ==
    IF n = 0 THEN {<<>>}
    ELSE LET shorter == SeqsUpTo(S, n - 1) IN
         shorter \cup {Append(q, x) : q \in {r \in shorter : Len(r) = n - 1}, x \in S}

\* The page-size value chosen for the idx-th code (idx counts from 0).
PageSize(idx) ==
    IF idx = 0 THEN "100" ELSE IF idx = 1 THEN "10" ELSE "100"

\* The stages of one code's step, and the exception a failing stage raises:
\* 1 _send_text into the filter, 2 wait for the page-size dropdown,
\* 3 select_by_value, 4 wait for the code's checkbox, 5 click on it.
NicStageExcs(k) ==
    IF k = 1 THEN {NotInteractable}
    ELSE IF k = 2 THEN {Timeout}
    ELSE IF k = 3 THEN {NoSuchElement}
    ELSE IF k = 4 THEN {Timeout}
    ELSE {NotInteractable, Timeout}

NicEnvs ==
    { [failAt |-> 0, exc |-> "None"] }
    \cup { [failAt |-> k, exc |-> x] : k \in 1..5, x \in {NotInteractable, Timeout, NoSuchElement} }

NicMustClick_always(code, checked) == TRUE

\* `if not checkbox.is_selected()`: the checkbox is clicked.
NicMustClick(code, checked) == code \notin checked

NicEnvValid(e, code, checked) ==
    /\ e.failAt # 0 => e.exc \in NicStageExcs(e.failAt)
    /\ e.failAt = 5 => NicMustClick(code, checked)

\* A click on a checkbox toggles it.
Toggle(code, checked) ==
    IF code \in checked THEN checked \ {code} ELSE checked \cup {code}

\* The loop over the codes is over: the Add button is due.
NicLoopOver_early(idx, n) == idx >= 1 \/ n = 0

NicLoopOver(idx, n) == idx = n

NicInit ==
    /\ nic_pc = "loop"
    /\ nic_raw \in SeqsUpTo(NicTokens, MaxCodes) \ {<<>>}
    /\ nic_idx = 0
    /\ nic_checked \in SUBSET {"A"}
    /\ nic_clicks = <<>>
    /\ nic_sizes = <<>>
    /\ nic_done = 0
    /\ nic_stepFailed = FALSE
    /\ nic_addCalls = 0
    /\ nic_exc = "None"
    /\ nic_shots = <<>>

NicIdle ==
    /\ nic_pc = "idle"
    /\ nic_raw = <<"">>
    /\ nic_idx = 0
    /\ nic_checked = {}
    /\ nic_clicks = <<>>
    /\ nic_sizes = <<>>
    /\ nic_done = 0
    /\ nic_stepFailed = FALSE
    /\ nic_addCalls = 0
    /\ nic_exc = "None"
    /\ nic_shots = <<>>

\* One pass of the for loop: filter by the code, choose the page size, find
\* the checkbox and check it when it is not checked yet.
NicCodeStep ==
    /\ UNCHANGED nicOthers
    /\ nic_pc = "loop"
    /\ ~NicLoopOver(nic_idx, Len(NicCodes(nic_raw)))
    /\ nic_idx < Len(NicCodes(nic_raw))
    /\ LET code == NicCodes(nic_raw)[nic_idx + 1] IN
       \E e \in NicEnvs :
         /\ NicEnvValid(e, code, nic_checked)
         /\ nic_sizes' = IF e.failAt = 0 \/ e.failAt > 3
                         THEN Append(nic_sizes, PageSize(nic_idx)) ELSE nic_sizes
         /\ IF e.failAt = 0
            THEN /\ nic_checked' = IF NicMustClick(code, nic_checked)
                                   THEN Toggle(code, nic_checked) ELSE nic_checked
                 /\ nic_clicks' = IF NicMustClick(code, nic_checked)
                                  THEN Append(nic_clicks, code) ELSE nic_clicks
                 /\ nic_idx' = nic_idx + 1
                 /\ nic_done' = nic_done + 1
                 /\ UNCHANGED <<nic_pc, nic_exc, nic_shots, nic_stepFailed>>
            ELSE /\ nic_pc' = "raised"
                 /\ nic_exc' = e.exc
                 /\ nic_shots' = Append(nic_shots, "nic_code_selection_failure")
                 /\ nic_stepFailed' = TRUE
                 /\ UNCHANGED <<nic_checked, nic_clicks, nic_idx, nic_done>>
    /\ UNCHANGED <<nic_raw, nic_addCalls>>

\* After the loop: one click on the Add button.
NicAdd ==
    /\ UNCHANGED nicOthers
    /\ nic_pc = "loop"
    /\ NicLoopOver(nic_idx, Len(NicCodes(nic_raw)))
    /\ nic_addCalls' = nic_addCalls + 1
    /\ \E x \in ClickExcs :
         IF x = "None"
         THEN /\ nic_pc' = "returned"
              /\ UNCHANGED <<nic_exc, nic_shots>>
         ELSE /\ nic_pc' = "raised"
              /\ nic_exc' = x
              /\ nic_shots' = Append(nic_shots, "nic_add_button_failure")
    /\ UNCHANGED <<nic_raw, nic_idx, nic_checked, nic_clicks, nic_sizes, nic_done,
                   nic_stepFailed>>

NicNext == NicCodeStep \/ NicAdd

----------------------------------------------------------------------------
(* scrape_all_tabs: the result scraper *)

\* The tab keys in the order of tab_mapping.
TabKeys == <<"error", "name_similarity", "trademark">>

\* What the browser does on the click of a tab, attempt by attempt.
ClickOk == [wait |-> "ok", scroll |-> "ok", native |-> "ok", js |-> "na"]
ClickNeverClickable == [wait |-> Timeout, scroll |-> "na", native |-> "na", js |-> "na"]
ClickStale == [wait |-> "ok", scroll |-> "ok", native |-> Stale, js |-> "na"]
ClickObscured == [wait |-> "ok", scroll |-> "ok", native |-> NotInteractable, js |-> "ok"]
ClickBlocked == [wait |-> "ok", scroll |-> "ok", native |-> ClickIntercepted, js |-> "na"]

TabClickScenarios ==
    { <<ClickOk>>, <<ClickObscured>>, <<ClickStale, ClickOk>>,
      <<ClickNeverClickable>>, <<ClickBlocked>>,
      <<ClickStale, ClickStale, ClickStale>> }

\* The tables a readable tab can hold: rows of cell texts.
TableRows == { <<>>, << <<"c1", "c2">> >> }

\* What the browser does for one tab.
\*   load   page-load wait of _click_element
\*   click  the attempts of the tab click
\*   table  "rows" when the table is read, else the exception of
\*          scrape_table (presence wait, find_element, row access)
TabEnvs ==
    { [load |-> Timeout, click |-> <<ClickOk>>, table |-> "na", rows |-> <<>>] }
    \cup { [load |-> "None", click |-> c, table |-> "na", rows |-> <<>>] :
            c \in {q \in TabClickScenarios :
                      ClickElementExc("None", q, DEFAULT_RETRIES) # "None"} }
    \cup { [load |-> "None", click |-> c, table |-> t, rows |-> <<>>] :
            c \in {q \in TabClickScenarios :
                      ClickElementExc("None", q, DEFAULT_RETRIES) = "None"},
            t \in {Timeout, NoSuchElement, Stale} }
    \cup { [load |-> "None", click |-> c, table |-> "rows", rows |-> r] :
            c \in {q \in TabClickScenarios :
                      ClickElementExc("None", q, DEFAULT_RETRIES) = "None"},
            r \in TableRows }

\* click_tab: the exception of the resilient click leaves click_tab as is
\* (the handled classes after a screenshot).
ClickTabExc(e) == ClickElementExc(e.load, e.click, DEFAULT_RETRIES)

ClickTabHandled(x) == x \in {Timeout, ClickIntercepted, NoSuchElement}

\* scrape_table: the rows, or the exception it ends with.
ScrapeTableExc(e) == IF e.table = "rows" THEN "None" ELSE e.table

ScrapeTableHandled(x) == x \in {Timeout, NoSuchElement}

\* The exception that reaches the except clause of scrape_all_tabs.
TabExc(e) ==
    IF ClickTabExc(e) # "None" THEN ClickTabExc(e) ELSE ScrapeTableExc(e)

\* The classes scrape_all_tabs catches to skip a tab.
ScrapeCaught_noTimeout(x) == x \in {NoSuchElement, ClickIntercepted}

ScrapeCaught(x) == x \in {Timeout, NoSuchElement, ClickIntercepted}

TabShots(e) ==
    IF ClickTabExc(e) # "None"
    THEN (IF ClickTabHandled(ClickTabExc(e)) THEN <<"tab_click_failed">> ELSE <<>>)
    ELSE IF ScrapeTableExc(e) # "None" /\ ScrapeTableHandled(ScrapeTableExc(e))
    THEN <<"table_scrape_failed">>
    ELSE <<>>

Unset == [kind |-> "unset", rows |-> <<>>]
NoneValue == [kind |-> "None", rows |-> <<>>]
RowsValue(r) == [kind |-> "rows", rows |-> r]

ScrapeInit ==
    /\ sc_pc = "loop"
    /\ sc_idx = 0
    /\ sc_result = [k \in {TabKeys[i] : i \in 1..3} |-> Unset]
    /\ sc_env = <<>>
    /\ sc_exc = "None"
    /\ sc_shots = <<>>
    /\ sc_out \in BOOLEAN
    /\ sc_saved = FALSE

ScrapeIdle ==
    /\ sc_pc = "idle"
    /\ sc_idx = 0
    /\ sc_result = [k \in {TabKeys[i] : i \in 1..3} |-> Unset]
    /\ sc_env = <<>>
    /\ sc_exc = "None"
    /\ sc_shots = <<>>
    /\ sc_out = FALSE
    /\ sc_saved = FALSE

\* One pass of the loop over tab_mapping: click the tab, scrape its table.
ScrapeTab ==
    /\ UNCHANGED scOthers
    /\ sc_pc = "loop"
    /\ sc_idx < 3
    /\ \E e \in TabEnvs :
         LET x == TabExc(e)
             key == TabKeys[sc_idx + 1]
         IN  /\ sc_env' = Append(sc_env, e)
             /\ sc_shots' = sc_shots \o TabShots(e)
             /\ IF x = "None"
                THEN /\ sc_result' = [sc_result EXCEPT ![key] = RowsValue(e.rows)]
                     /\ sc_idx' = sc_idx + 1
                     /\ UNCHANGED <<sc_pc, sc_exc>>
                ELSE IF ScrapeCaught(x)
                THEN /\ sc_result' = [sc_result EXCEPT ![key] = NoneValue]
                     /\ sc_idx' = sc_idx + 1
                     /\ UNCHANGED <<sc_pc, sc_exc>>
                ELSE /\ sc_pc' = "raised"
                     /\ sc_exc' = x
                     /\ UNCHANGED <<sc_result, sc_idx>>
    /\ UNCHANGED <<sc_out, sc_saved>>

\* After the loop: the optional JSON dump (its failure is logged only) and
\* the return of the record.
ScrapeReturn ==
    /\ UNCHANGED scOthers
    /\ sc_pc = "loop"
    /\ sc_idx = 3
    /\ \E written \in BOOLEAN : sc_saved' = (sc_out /\ written)
    /\ sc_pc' = "returned"
    /\ UNCHANGED <<sc_idx, sc_result, sc_env, sc_exc, sc_shots, sc_out>>

ScrapeNext == ScrapeTab \/ ScrapeReturn

----------------------------------------------------------------------------
(* Addresses of the portal *)

\* An address is a sequence of parts; `a in b` on addresses is "a occurs in
\* b as a run of consecutive parts".
UrlParts == {"mca", "foportal", "fologin.html", "spice.html", "home.html"}

LOGIN_URL == <<"mca", "foportal", "fologin.html">>
SPICE_FORM_URL == <<"mca", "spice.html">>

MaxUrlLen == 3

Urls == UNION { [1..n -> UrlParts] : n \in 0..MaxUrlLen }

Contains(url, part) ==
    \E i \in 1..(Len(url) - Len(part) + 1) :
        \A j \in 1..Len(part) : url[i + j - 1] = part[j]

APPLICATION_HISTORY_URL == <<"mca", "application-history.html">>

----------------------------------------------------------------------------
(* check_name (api_v1) and initialize_browser: one request, one session *)

AutomationError == "AutomationError"
VerificationStepFailed == "VerificationStepFailed"
PlainException == "Exception"

\* The form steps in the order check_name calls them.
FormSteps_withSubmission ==
    <<"click_okay_button", "select_company_type", "select_company_class",
      "select_company_category", "select_company_subcategory",
      "open_nic_code_dialog", "select_nic_codes_dynamic", "enter_company_name",
      "handle_name_check_and_submit", "click_proceed_incorporation",
      "click_continue_button">>

FormSteps ==
    <<"click_okay_button", "select_company_type", "select_company_class",
      "select_company_category", "select_company_subcategory",
      "open_nic_code_dialog", "select_nic_codes_dynamic", "enter_company_name",
      "handle_name_check_and_submit">>

\* The page elements each step of main.py acts on, in order.
StepTargets(step) ==
    CASE step = "click_okay_button" -> <<"OK_BUTTON_POPUP">>
      [] step = "select_company_type" -> <<"COMPANY_TYPE_DROPDOWN">>
      [] step = "select_company_class" -> <<"COMPANY_CLASS_DROPDOWN">>
      [] step = "select_company_category" -> <<"COMPANY_CATEGORY_DROPDOWN">>
      [] step = "select_company_subcategory" -> <<"COMPANY_SUB_CATEGORY_DROPDOWN">>
      [] step = "open_nic_code_dialog" -> <<"NIC_BUTTON">>
      [] step = "select_nic_codes_dynamic" ->
           <<"NIC_SEARCH_BAR", "NIC_PAGE_SIZE_DROPDOWN", "NIC_CHECKBOX_XPATH",
             "NIC_ADD_BUTTON">>
      [] step = "enter_company_name" -> <<"COMPANY_NAME_INPUT">>
      [] step = "handle_name_check_and_submit" -> <<"AUTO_CHECK_BUTTON">>
      [] step = "click_proceed_incorporation" -> <<"PROCEED_INCORPORATION_RADIO">>
      [] step = "click_continue_button" -> <<"CONTINUE_BUTTON">>
      [] OTHER -> <<>>

\* The elements of the final submission.
FinalSubmissionTargets == {"PROCEED_INCORPORATION_RADIO", "CONTINUE_BUTTON"}

\* The exceptions a form step or the scrape can end with.
StepExcs ==
    {Timeout, NoSuchElement, NotInteractable, AutomationError,
     VerificationStepFailed, WebDriverError}

\* The except clause of check_name that takes the exception, by class.
EnvelopeError(x) ==
    IF x \in {AutomationError, VerificationStepFailed} THEN "critical_step"
    ELSE IF x = Timeout THEN "element_timeout"
    ELSE IF x = NoSuchElement THEN "element_not_found"
    ELSE IF x = NotInteractable THEN "element_blocked"
    ELSE "unexpected"

\* The exception initialize_browser raises after a failed login.
LoginFailedExc(variant) ==
    IF variant = "package" THEN AutomationError ELSE PlainException

\* quit() calls made by initialize_browser on a failed login before its
\* except clause runs: the package variant quits before it raises.
LoginFailedQuits(variant) == IF variant = "package" THEN 1 ELSE 0

\* The except clause of initialize_browser: `if driver:` quit it.
InitCleanupQuits(driverSet) == IF driverSet THEN 1 ELSE 0

\* The finally clause of check_name: `if driver:` quit it.
FinallyQuits_never(driverSet) == 0

FinallyQuits(driverSet) == IF driverSet THEN 1 ELSE 0

SessionAfterQuits(session, n) == IF n > 0 /\ session = "open" THEN "closed" ELSE session

NoResponse == [success |-> FALSE, data |-> "unset", error |-> "unset"]

CheckNameInit ==
    /\ cn_pc = "create"
    /\ cn_variant \in {"root", "package"}
    /\ cn_session = "none"
    /\ cn_initDriver = FALSE
    /\ cn_driver = FALSE
    /\ cn_quits = 0
    /\ cn_step = 1
    /\ cn_log = <<>>
    /\ cn_exc = "None"
    /\ cn_initFailed = FALSE
    /\ cn_response = NoResponse
    /\ cn_login = "unchecked"
    /\ cn_afterLogin = <<>>

CheckNameIdle ==
    /\ cn_pc = "idle"
    /\ cn_variant = "root"
    /\ cn_session = "none"
    /\ cn_initDriver = FALSE
    /\ cn_driver = FALSE
    /\ cn_quits = 0
    /\ cn_step = 1
    /\ cn_log = <<>>
    /\ cn_exc = "None"
    /\ cn_initFailed = FALSE
    /\ cn_response = NoResponse
    /\ cn_login = "unchecked"
    /\ cn_afterLogin = <<>>

\* initialize_browser raises x: its except clause quits the driver it holds
\* and re-raises into check_name, whose own driver variable is still None.
InitRaise(x, quitsBefore) ==
    LET n == quitsBefore + InitCleanupQuits(cn_initDriver) IN
    /\ cn_quits' = cn_quits + n
    /\ cn_session' = SessionAfterQuits(cn_session, n)
    /\ cn_exc' = x
    /\ cn_initFailed' = TRUE
    /\ cn_pc' = "handler"
    /\ UNCHANGED <<cn_variant, cn_initDriver, cn_driver, cn_step, cn_log, cn_response>>

\* initialize_browser returns the driver to check_name.
InitReturn ==
    /\ cn_driver' = TRUE
    /\ cn_pc' = "steps"
    /\ UNCHANGED <<cn_variant, cn_session, cn_initDriver, cn_quits, cn_step, cn_log,
                   cn_exc, cn_initFailed, cn_response>>

\* Profile options, geckodriver lookup and webdriver.Firefox(...): the
\* session exists once the constructor returned.
CnInitCreate ==
    /\ UNCHANGED cnOthers
    /\ UNCHANGED cn_login
    /\ UNCHANGED cn_afterLogin
    /\ cn_pc = "create"
    /\ \E created \in BOOLEAN :
         IF created
         THEN /\ cn_session' = "open"
              /\ cn_initDriver' = TRUE
              /\ cn_pc' = "navigate"
              /\ UNCHANGED <<cn_variant, cn_driver, cn_quits, cn_step, cn_log, cn_exc,
                             cn_initFailed, cn_response>>
         ELSE InitRaise(WebDriverError, 0)

\* maximize_window and driver.get(target_url).
CnInitNavigate ==
    /\ UNCHANGED cnOthers
    /\ UNCHANGED cn_login
    /\ UNCHANGED cn_afterLogin
    /\ cn_pc = "navigate"
    /\ \E ok \in BOOLEAN :
         IF ok
         THEN /\ cn_pc' = "login_check"
              /\ UNCHANGED <<cn_variant, cn_session, cn_initDriver, cn_driver, cn_quits,
                             cn_step, cn_log, cn_exc, cn_initFailed, cn_response>>
         ELSE InitRaise(WebDriverError, 0)

\* check_login_required: no login needed, login needed, or the location
\* read raised.
CnInitLoginCheck ==
    /\ UNCHANGED cnOthers
    /\ cn_pc = "login_check"
    /\ UNCHANGED cn_afterLogin
    /\ \E r \in {"not_required", "required", "error"} :
         /\ cn_login' = r
         /\ IF r = "not_required" THEN InitReturn
            ELSE IF r = "required"
            THEN /\ cn_pc' = "login"
                 /\ UNCHANGED <<cn_variant, cn_session, cn_initDriver, cn_driver, cn_quits,
                                cn_step, cn_log, cn_exc, cn_initFailed, cn_response>>
            ELSE InitRaise(WebDriverError, 0)

\* `if not login_success:` in initialize_browser.
LoginFailed_ignored(success) == FALSE

LoginFailed(success) == ~success

\* After a successful login the session is at the application-history
\* page; the root variant goes to the form when its address is not the
\* current one, the package variant has no such step.
NavigatesToForm(variant, url) ==
    variant = "root" /\ ~Contains(url, SPICE_FORM_URL)

\* login_to_mca_and_verify and what initialize_browser does with its
\* verdict; the root variant then makes sure the SPICE form is shown.
CnInitLogin ==
    /\ UNCHANGED cnOthers
    /\ cn_pc = "login"
    /\ \E success \in BOOLEAN, landed \in {SPICE_FORM_URL, LOGIN_URL} :
         /\ cn_login' = IF success THEN "succeeded" ELSE "failed"
         /\ IF LoginFailed(success)
            THEN /\ landed = LOGIN_URL
                 /\ InitRaise(LoginFailedExc(cn_variant), LoginFailedQuits(cn_variant))
                 /\ UNCHANGED cn_afterLogin
            ELSE IF NavigatesToForm(cn_variant, APPLICATION_HISTORY_URL)
            THEN /\ cn_afterLogin' = landed
                 /\ IF Contains(landed, SPICE_FORM_URL)
                    THEN InitReturn
                    ELSE InitRaise(PlainException, 0)
            ELSE /\ landed = LOGIN_URL
                 /\ cn_afterLogin' = APPLICATION_HISTORY_URL
                 /\ InitReturn

\* A form step whose exception is recorded without leaving the try body.
CnFormStep_continues ==
    /\ UNCHANGED cnOthers
    /\ UNCHANGED cn_login
    /\ UNCHANGED cn_afterLogin
    /\ cn_pc = "steps"
    /\ cn_step <= Len(FormSteps)
    /\ cn_log' = Append(cn_log, FormSteps[cn_step])
    /\ \E x \in StepExcs \cup {"None"} :
         /\ cn_step' = cn_step + 1
         /\ cn_pc' = IF cn_step = Len(FormSteps) THEN "scrape" ELSE "steps"
         /\ cn_exc' = IF x = "None" THEN cn_exc ELSE x
    /\ UNCHANGED <<cn_variant, cn_session, cn_initDriver, cn_driver, cn_quits,
                   cn_initFailed, cn_response>>

\* One form step: it returns, or its exception leaves the try body.
CnFormStep ==
    /\ UNCHANGED cnOthers
    /\ UNCHANGED cn_login
    /\ UNCHANGED cn_afterLogin
    /\ cn_pc = "steps"
    /\ cn_step <= Len(FormSteps)
    /\ cn_log' = Append(cn_log, FormSteps[cn_step])
    /\ \E x \in StepExcs \cup {"None"} :
         IF x = "None"
         THEN /\ cn_step' = cn_step + 1
              /\ cn_pc' = IF cn_step = Len(FormSteps) THEN "scrape" ELSE "steps"
              /\ UNCHANGED cn_exc
         ELSE /\ cn_exc' = x
              /\ cn_pc' = "handler"
              /\ UNCHANGED cn_step
    /\ UNCHANGED <<cn_variant, cn_session, cn_initDriver, cn_driver, cn_quits,
                   cn_initFailed, cn_response>>

\* scrape_all_tabs and the success envelope.
CnScrape ==
    /\ UNCHANGED cnOthers
    /\ UNCHANGED cn_login
    /\ UNCHANGED cn_afterLogin
    /\ cn_pc = "scrape"
    /\ cn_log' = Append(cn_log, "scrape_all_tabs")
    /\ \E x \in {"None", NotInteractable, Stale} :
         IF x = "None"
         THEN /\ cn_response' = [success |-> TRUE, data |-> "record", error |-> "unset"]
              /\ cn_pc' = "finally"
              /\ UNCHANGED cn_exc
         ELSE /\ cn_exc' = x
              /\ cn_pc' = "handler"
              /\ UNCHANGED cn_response
    /\ UNCHANGED <<cn_variant, cn_session, cn_initDriver, cn_driver, cn_quits, cn_step,
                   cn_initFailed>>

\* The except clauses of check_name: the failure envelope.
CnHandle ==
    /\ UNCHANGED cnOthers
    /\ UNCHANGED cn_login
    /\ UNCHANGED cn_afterLogin
    /\ cn_pc = "handler"
    /\ cn_response' = [success |-> FALSE, data |-> "None", error |-> EnvelopeError(cn_exc)]
    /\ cn_pc' = "finally"
    /\ UNCHANGED <<cn_variant, cn_session, cn_initDriver, cn_driver, cn_quits, cn_step,
                   cn_log, cn_exc, cn_initFailed>>

\* The finally clause of check_name, then the return of the envelope.
CnFinally ==
    /\ UNCHANGED cnOthers
    /\ UNCHANGED cn_login
    /\ UNCHANGED cn_afterLogin
    /\ cn_pc = "finally"
    /\ cn_quits' = cn_quits + FinallyQuits(cn_driver)
    /\ cn_session' = SessionAfterQuits(cn_session, FinallyQuits(cn_driver))
    /\ cn_pc' = "returned"
    /\ UNCHANGED <<cn_variant, cn_initDriver, cn_driver, cn_step, cn_log, cn_exc,
                   cn_initFailed, cn_response>>

CheckNameNext ==
    \/ CnInitCreate \/ CnInitNavigate \/ CnInitLoginCheck \/ CnInitLogin
    \/ CnFormStep \/ CnScrape \/ CnHandle \/ CnFinally

----------------------------------------------------------------------------
(* Concurrent check_name requests: per-request configuration and session *)

MaxRequests == 2
Reqs == 1..MaxRequests

\* A company name is a sequence of words.
UpperWord(w) ==
    CASE w = "acme" -> "ACME"
      [] w = "zed" -> "ZED"
      [] w = "base" -> "BASE"
      [] w = "private" -> "PRIVATE"
      [] w = "Limited" -> "LIMITED"
      [] OTHER -> w

Upper(name) == [i \in 1..Len(name) |-> UpperWord(name[i])]

HasPrivateLimited(name) ==
    \E i \in 1..(Len(name) - 1) : name[i] = "PRIVATE" /\ name[i + 1] = "LIMITED"

format_company_name(name) ==
    IF HasPrivateLimited(Upper(name)) THEN Upper(name)
    ELSE Upper(name) \o <<"PRIVATE", "LIMITED">>

\* company_name of the configuration file loaded at start-up.
BaseCompanyName == <<"base">>

\* The names requests carry.
RequestNames == {<<"acme">>, <<"zed", "private", "Limited">>}

\* Dictionary objects: top-level dictionary 0 is BASE_CONFIG and meta
\* dictionary 0 is the one it refers to.  `BASE_CONFIG.copy()` makes the
\* request's own top-level dictionary; `config["meta"].copy()` makes its own
\* nested dictionary.
ConfigObject(r) == r

MetaCopyObject_alias(r, old) == old

MetaCopyObject(r, old) == r

\* webdriver.Firefox(...) starts a new browser: a session nobody else holds.
NewSessionId_shared(next) == 1

NewSessionId(next) == next

NoName == <<>>

RequestsInit ==
    /\ rq_pc = [r \in Reqs |-> "start"]
    /\ rq_name \in [Reqs -> RequestNames]
    /\ rq_top = [i \in 0..MaxRequests |-> 0]
    /\ rq_meta = [i \in 0..MaxRequests |-> BaseCompanyName]
    /\ rq_driver = [r \in Reqs |-> 0]
    /\ rq_owner = [s \in Reqs |-> 0]
    /\ rq_open = {}
    /\ rq_next = 1
    /\ rq_uses = {}
    /\ rq_typed = [r \in Reqs |-> NoName]

RequestsIdle ==
    /\ rq_pc = [r \in Reqs |-> "idle"]
    /\ rq_name = [r \in Reqs |-> BaseCompanyName]
    /\ rq_top = [i \in 0..MaxRequests |-> 0]
    /\ rq_meta = [i \in 0..MaxRequests |-> BaseCompanyName]
    /\ rq_driver = [r \in Reqs |-> 0]
    /\ rq_owner = [s \in Reqs |-> 0]
    /\ rq_open = {}
    /\ rq_next = 1
    /\ rq_uses = {}
    /\ rq_typed = [r \in Reqs |-> NoName]

\* config = BASE_CONFIG.copy()
RqCopyConfig(r) ==
    /\ UNCHANGED rqOthers
    /\ rq_pc[r] = "start"
    /\ rq_top' = [rq_top EXCEPT ![ConfigObject(r)] = rq_top[0]]
    /\ rq_pc' = [rq_pc EXCEPT ![r] = "copy_meta"]
    /\ UNCHANGED <<rq_name, rq_meta, rq_driver, rq_owner, rq_open, rq_next, rq_uses,
                   rq_typed>>

\* config["meta"] = config["meta"].copy()
RqCopyMeta(r) ==
    /\ UNCHANGED rqOthers
    /\ rq_pc[r] = "copy_meta"
    /\ LET c == ConfigObject(r)
           old == rq_top[c]
           new == MetaCopyObject(r, old)
       IN /\ rq_meta' = [rq_meta EXCEPT ![new] = rq_meta[old]]
          /\ rq_top' = [rq_top EXCEPT ![c] = new]
    /\ rq_pc' = [rq_pc EXCEPT ![r] = "set_name"]
    /\ UNCHANGED <<rq_name, rq_driver, rq_owner, rq_open, rq_next, rq_uses, rq_typed>>

\* config["meta"]["company_name"] = request.company_name
RqSetName(r) ==
    /\ UNCHANGED rqOthers
    /\ rq_pc[r] = "set_name"
    /\ rq_meta' = [rq_meta EXCEPT ![rq_top[ConfigObject(r)]] = rq_name[r]]
    /\ rq_pc' = [rq_pc EXCEPT ![r] = "init"]
    /\ UNCHANGED <<rq_name, rq_top, rq_driver, rq_owner, rq_open, rq_next, rq_uses,
                   rq_typed>>

\* driver = browser_setup.initialize_browser(config): no session, a session
\* that initialize_browser quits itself before raising, or a session
\* returned into the request's local `driver`.
RqInitBrowser(r) ==
    /\ UNCHANGED rqOthers
    /\ rq_pc[r] = "init"
    /\ \E outcome \in {"no_session", "failed", "ok"} :
         LET s == NewSessionId(rq_next) IN
         IF outcome = "no_session"
         THEN /\ rq_pc' = [rq_pc EXCEPT ![r] = "finally"]
              /\ UNCHANGED <<rq_driver, rq_owner, rq_open, rq_next, rq_uses>>
         ELSE /\ rq_owner' = [rq_owner EXCEPT ![s] = r]
              /\ rq_next' = rq_next + 1
              /\ IF outcome = "failed"
                 THEN /\ rq_uses' = rq_uses \cup {<<r, s, "navigate">>, <<r, s, "quit">>}
                      /\ rq_open' = rq_open \ {s}
                      /\ rq_pc' = [rq_pc EXCEPT ![r] = "finally"]
                      /\ UNCHANGED rq_driver
                 ELSE /\ rq_uses' = rq_uses \cup {<<r, s, "navigate">>}
                      /\ rq_open' = rq_open \cup {s}
                      /\ rq_driver' = [rq_driver EXCEPT ![r] = s]
                      /\ rq_pc' = [rq_pc EXCEPT ![r] = "steps"]
    /\ UNCHANGED <<rq_name, rq_top, rq_meta, rq_typed>>

\* The form steps before the name entry, on the request's own driver.
RqFormSteps(r) ==
    /\ UNCHANGED rqOthers
    /\ rq_pc[r] = "steps"
    /\ rq_uses' = rq_uses \cup {<<r, rq_driver[r], "form">>}
    /\ \E ok \in BOOLEAN :
         rq_pc' = [rq_pc EXCEPT ![r] = IF ok THEN "enter_name" ELSE "finally"]
    /\ UNCHANGED <<rq_name, rq_top, rq_meta, rq_driver, rq_owner, rq_open, rq_next,
                   rq_typed>>

\* enter_company_name(driver, config['meta']['company_name'])
RqEnterName(r) ==
    /\ UNCHANGED rqOthers
    /\ rq_pc[r] = "enter_name"
    /\ rq_typed' =
         [rq_typed EXCEPT ![r] = format_company_name(rq_meta[rq_top[ConfigObject(r)]])]
    /\ rq_uses' = rq_uses \cup {<<r, rq_driver[r], "enter_name">>}
    /\ rq_pc' = [rq_pc EXCEPT ![r] = "scrape"]
    /\ UNCHANGED <<rq_name, rq_top, rq_meta, rq_driver, rq_owner, rq_open, rq_next>>

\* handle_name_check_and_submit and scrape_all_tabs.
RqCheckAndScrape(r) ==
    /\ UNCHANGED rqOthers
    /\ rq_pc[r] = "scrape"
    /\ rq_uses' = rq_uses \cup {<<r, rq_driver[r], "scrape">>}
    /\ rq_pc' = [rq_pc EXCEPT ![r] = "finally"]
    /\ UNCHANGED <<rq_name, rq_top, rq_meta, rq_driver, rq_owner, rq_open, rq_next,
                   rq_typed>>

\* finally: if driver: driver.quit()
RqFinally(r) ==
    /\ UNCHANGED rqOthers
    /\ rq_pc[r] = "finally"
    /\ IF rq_driver[r] # 0
       THEN /\ rq_uses' = rq_uses \cup {<<r, rq_driver[r], "quit">>}
            /\ rq_open' = rq_open \ {rq_driver[r]}
       ELSE UNCHANGED <<rq_uses, rq_open>>
    /\ rq_pc' = [rq_pc EXCEPT ![r] = "done"]
    /\ UNCHANGED <<rq_name, rq_top, rq_meta, rq_driver, rq_owner, rq_next, rq_typed>>

RequestsNext ==
    \E r \in Reqs :
        \/ RqCopyConfig(r) \/ RqCopyMeta(r) \/ RqSetName(r) \/ RqInitBrowser(r)
        \/ RqFormSteps(r) \/ RqEnterName(r) \/ RqCheckAndScrape(r) \/ RqFinally(r)

----------------------------------------------------------------------------
(* The check_name wrappers (api_v1, package api, app) and the app's         *)
(* result analysis: ConflictAnalyser and the suggestion service             *)

AttributeError == "AttributeError"

WrapperVariants == {"api_v1", "package_api", "app_main"}

\* str.lower() on the cell texts and names that occur.
Lower(t) ==
    CASE t = "Info" -> "info"
      [] t = "Error" -> "error"
      [] t = "Success" -> "success"
      [] t = "ACME ROBOTICS" -> "acme robotics"
      [] t = "Acme Robotics" -> "acme robotics"
      [] OTHER -> t

\* What scrape_table returns for a tab: one list of cell texts per table
\* row, a header row giving the empty list.
ErrorTables ==
    { <<>>,
      << <<>>, <<"Info", "ACME ROBOTICS", "No issue found">> >>,
      << <<>>, <<"Error", "ACME ROBOTICS", "Name Similarity">> >>,
      << <<"success", "ACME ROBOTICS", "ok">>, <<"warning", "ACME ROBOTICS", "Resembles">> >> }

SimilarityTables == { <<>>, << <<"ACME ROBOTIC">> >> }

TrademarkTables == { <<>> }

\* The record scrape_all_tabs returns: every key present, None for a tab
\* that was skipped.
ScrapedRecords ==
    [error : {NoneValue} \cup {RowsValue(t) : t \in ErrorTables},
     name_similarity : {NoneValue} \cup {RowsValue(t) : t \in SimilarityTables},
     trademark : {NoneValue} \cup {RowsValue(t) : t \in TrademarkTables}]

NoScraped == [error |-> Unset, name_similarity |-> Unset, trademark |-> Unset]

\* `not scraped_data or ("error" not in scraped_data and "name_similarity"
\* not in scraped_data)` over the keys of the record.
ScrapedInvalid(keys) ==
    keys = {} \/ ("error" \notin keys /\ "name_similarity" \notin keys)

\* ConflictAnalyser.has_blocking_error over list rows.
has_blocking_error(rows) ==
    \E i \in 1..Len(rows) :
        /\ rows[i] # <<>>
        /\ Lower(rows[i][1]) \notin {"info", "success"}

\* An iteration that takes None for the empty list.
IterRaises_never(tab) == FALSE

\* Iterating a tab value that is None raises TypeError.
IterRaises(tab) == tab = NoneValue

\* The exception analyse_async ends with before the suggestion service is
\* called, "None" when it gets that far or returns VALID.
AnalyseExc(scraped) ==
    IF IterRaises(scraped.error) THEN TypeError
    ELSE IF ~has_blocking_error(scraped.error.rows) THEN "None"
    ELSE IF IterRaises(scraped.name_similarity) \/ IterRaises(scraped.trademark)
    THEN TypeError
    ELSE "None"

\* get_analysis_and_suggestions: default max_retries.
LlmMaxRetries == 2

\* StructuredLLMResponse.recommended_names: min_items / max_items.
MinItems == 3
MaxItems == 7

AltNames ==
    <<"alt one", "alt two", "alt three", "alt four", "alt five", "alt six",
      "alt seven", "alt eight">>

\* A reply of the language model: n suggestions, the first of which may be
\* the input name in another letter case.
LlmCounts == {2, 3, 7, 8}
ReplyNames(n, echo) ==
    [i \in 1..n |-> IF echo /\ i = 1 THEN "Acme Robotics" ELSE AltNames[i]]

\* parser.parse: the reply validates against StructuredLLMResponse.
ParseOk(names) == Len(names) >= MinItems /\ Len(names) <= MaxItems

\* _fallback_suggestions returns five names.
FallbackNames == <<"alt one", "alt two", "alt three", "alt four", "alt five">>

NoLlm == [kind |-> "none", names |-> <<>>]
ParsedReply(names) == [kind |-> "parsed", names |-> names]
FallbackDict == [kind |-> "dict", names |-> FallbackNames]

NoAppResponse ==
    [keys |-> {}, success |-> "absent", verdict |-> "absent", names |-> <<>>]

\* The failure value of each wrapper's except clause.
FailureResponse(variant) ==
    [keys |-> IF variant = "package_api" THEN {"success", "error"}
              ELSE {"success", "data", "error"},
     success |-> "false", verdict |-> "absent", names |-> <<>>]

\* The value each wrapper returns when its try body completes.
SuccessResponse(variant, verdict, names) ==
    IF variant = "app_main"
    THEN [keys |-> {"verdict", "blocking_messages", "recommended_names"},
          success |-> "absent", verdict |-> verdict, names |-> names]
    ELSE [keys |-> {"success", "data"}, success |-> "true", verdict |-> "absent",
          names |-> <<>>]

OriginalNames == {"ACME ROBOTICS"}

AppInit ==
    /\ ap_pc = "automation"
    /\ ap_variant \in WrapperVariants
    /\ ap_name \in OriginalNames
    /\ ap_scraped = NoScraped
    /\ ap_exc = "None"
    /\ ap_llmAvailable \in BOOLEAN
    /\ ap_attempt = 0
    /\ ap_llm = NoLlm
    /\ ap_verdict = "absent"
    /\ ap_response = NoAppResponse

AppIdle ==
    /\ ap_pc = "idle"
    /\ ap_variant = "api_v1"
    /\ ap_name = "ACME ROBOTICS"
    /\ ap_scraped = NoScraped
    /\ ap_exc = "None"
    /\ ap_llmAvailable = FALSE
    /\ ap_attempt = 0
    /\ ap_llm = NoLlm
    /\ ap_verdict = "absent"
    /\ ap_response = NoAppResponse

\* initialize_browser, the form steps and scrape_all_tabs.
ApAutomation ==
    /\ UNCHANGED apOthers
    /\ ap_pc = "automation"
    /\ \E x \in StepExcs \cup {PlainException, "None"} :
         IF x = "None"
         THEN /\ ap_scraped' \in ScrapedRecords
              /\ ap_pc' = IF ap_variant = "app_main" THEN "analyse" ELSE "respond"
              /\ UNCHANGED ap_exc
         ELSE /\ ap_exc' = x
              /\ ap_pc' = "respond"
              /\ UNCHANGED ap_scraped
    /\ UNCHANGED <<ap_variant, ap_name, ap_llmAvailable, ap_attempt, ap_llm, ap_verdict,
                   ap_response>>

\* The scraped-data check, ConflictAnalyser(...) and analyse_async up to the
\* call of the suggestion service.
ApAnalyse ==
    /\ UNCHANGED apOthers
    /\ ap_pc = "analyse"
    /\ IF ScrapedInvalid(DOMAIN ap_scraped)
       THEN /\ ap_exc' = AutomationError
            /\ ap_pc' = "respond"
            /\ UNCHANGED ap_verdict
       ELSE IF AnalyseExc(ap_scraped) # "None"
       THEN /\ ap_exc' = AnalyseExc(ap_scraped)
            /\ ap_pc' = "respond"
            /\ UNCHANGED ap_verdict
       ELSE IF ~has_blocking_error(ap_scraped.error.rows)
       THEN /\ ap_verdict' = "VALID"
            /\ ap_pc' = "respond"
            /\ UNCHANGED ap_exc
       ELSE /\ ap_pc' = "llm"
            /\ UNCHANGED <<ap_exc, ap_verdict>>
    /\ UNCHANGED <<ap_variant, ap_name, ap_scraped, ap_llmAvailable, ap_attempt, ap_llm,
                   ap_response>>

\* get_analysis_and_suggestions: the unavailable shortcut, or one attempt of
\* the retry loop.
ApLlmAttempt ==
    /\ UNCHANGED apOthers
    /\ ap_pc = "llm"
    /\ IF ~ap_llmAvailable
       THEN /\ ap_llm' = FallbackDict
            /\ ap_pc' = "build"
            /\ UNCHANGED ap_attempt
       ELSE /\ ap_attempt < LlmMaxRetries
            /\ ap_attempt' = ap_attempt + 1
            /\ \E raised \in BOOLEAN, n \in LlmCounts, echo \in BOOLEAN :
                 IF ~raised /\ ParseOk(ReplyNames(n, echo))
                 THEN /\ ap_llm' = ParsedReply(ReplyNames(n, echo))
                      /\ ap_pc' = "build"
                 ELSE IF ap_attempt' = LlmMaxRetries
                 THEN /\ ap_llm' = FallbackDict
                      /\ ap_pc' = "build"
                 ELSE UNCHANGED <<ap_llm, ap_pc>>
    /\ UNCHANGED <<ap_variant, ap_name, ap_scraped, ap_exc, ap_llmAvailable, ap_verdict,
                   ap_response>>

\* NameCheckResult(verdict="NOT VALID", ... llm_output.summarized_conflicts,
\* llm_output.recommended_names): attribute access on the fallback dict
\* raises AttributeError.
ApBuildResult ==
    /\ UNCHANGED apOthers
    /\ ap_pc = "build"
    /\ IF ap_llm.kind = "dict"
       THEN /\ ap_exc' = AttributeError
            /\ UNCHANGED ap_verdict
       ELSE /\ ap_verdict' = "NOT VALID"
            /\ UNCHANGED ap_exc
    /\ ap_pc' = "respond"
    /\ UNCHANGED <<ap_variant, ap_name, ap_scraped, ap_llmAvailable, ap_attempt, ap_llm,
                   ap_response>>

\* The return statement of the try body or of the except clause.
ApRespond ==
    /\ UNCHANGED apOthers
    /\ ap_pc = "respond"
    /\ ap_response' =
         IF ap_exc # "None" THEN FailureResponse(ap_variant)
         ELSE SuccessResponse(ap_variant, ap_verdict,
                              IF ap_llm.kind = "parsed" THEN ap_llm.names ELSE <<>>)
    /\ ap_pc' = "done"
    /\ UNCHANGED <<ap_variant, ap_name, ap_scraped, ap_exc, ap_llmAvailable, ap_attempt,
                   ap_llm, ap_verdict>>

AppNext ==
    \/ ApAutomation \/ ApAnalyse \/ ApLlmAttempt \/ ApBuildResult \/ ApRespond

----------------------------------------------------------------------------
(* check_login_required: is a login needed on the page that was loaded *)

\* The two location tests, in the order of the code: "probe" when neither
\* address is recognised.
LocationVerdict_loginFirst(url, target) ==
    IF Contains(url, LOGIN_URL) \/ Contains(url, <<"fologin.html">>) THEN "required"
    ELSE IF Contains(url, target) THEN "not_required"
    ELSE "probe"

LocationVerdict(url, target) ==
    IF Contains(url, target) THEN "not_required"
    ELSE IF Contains(url, LOGIN_URL) \/ Contains(url, <<"fologin.html">>) THEN "required"
    ELSE "probe"

\* find_elements for the login fields: a non-empty list means login is
\* required; an empty list, or an exception (caught and logged), falls
\* through to `return False`.
ProbeOutcomes == {"found", "none", "raised"}

ProbeVerdict(probe) == IF probe = "found" THEN "required" ELSE "not_required"

LoginRequiredInit ==
    /\ lr_pc = "location"
    /\ lr_url \in Urls
    /\ lr_probe = "na"
    /\ lr_result = "unset"

LoginRequiredIdle ==
    /\ lr_pc = "idle"
    /\ lr_url = <<>>
    /\ lr_probe = "na"
    /\ lr_result = "unset"

\* current_url is read and compared with the target and the login page.
LrLocation ==
    /\ UNCHANGED lrOthers
    /\ lr_pc = "location"
    /\ LET v == LocationVerdict(lr_url, SPICE_FORM_URL) IN
         IF v = "probe"
         THEN /\ lr_pc' = "probe"
              /\ UNCHANGED lr_result
         ELSE /\ lr_result' = v
              /\ lr_pc' = "done"
    /\ UNCHANGED <<lr_url, lr_probe>>

\* The secondary probe for login-specific elements.
LrProbe ==
    /\ UNCHANGED lrOthers
    /\ lr_pc = "probe"
    /\ \E p \in ProbeOutcomes :
         /\ lr_probe' = p
         /\ lr_result' = ProbeVerdict(p)
    /\ lr_pc' = "done"
    /\ UNCHANGED lr_url

LoginRequiredNext == LrLocation \/ LrProbe

----------------------------------------------------------------------------
(* _select_dropdown_option: one dropdown selection with its fallbacks *)

\* The four dropdown steps of the form.
DropdownSteps ==
    {"company type", "company class", "company category", "company sub-category"}

\* What a selection call can raise besides "no such option".
SelectExcs == {Stale, NotInteractable, WebDriverError}

\* select_by_value / select_by_visible_text on a page that has (or has not)
\* an option with that value / text: the call goes through when it has one,
\* raises NoSuchElementException when it has none, and the browser can fail
\* it either way.
SelectOutcomes(found) ==
    SelectExcs \cup (IF found THEN {"None"} ELSE {NoSuchElement})

\* `except NoSuchElementException`: the clause that moves on to the next
\* strategy.
OptionNotFound_anyError(x) == x # "None"

OptionNotFound(x) == x = NoSuchElement

DropdownInit ==
    /\ dd_pc = "prepare"
    /\ dd_step \in DropdownSteps
    /\ dd_hasValue \in BOOLEAN
    /\ dd_hasText \in BOOLEAN
    /\ dd_ops = <<>>
    /\ dd_exc = "None"
    /\ dd_shots = 0

DropdownIdle ==
    /\ dd_pc = "idle"
    /\ dd_step = "company type"
    /\ dd_hasValue = FALSE
    /\ dd_hasText = FALSE
    /\ dd_ops = <<>>
    /\ dd_exc = "None"
    /\ dd_shots = 0

\* A call and how it ended, as an entry of the call log.
Call(op, exc) == [op |-> op, exc |-> exc]

\* Wait for the dropdown, remove a leftover backdrop (its errors are
\* swallowed), scroll to the dropdown.
DdPrepare ==
    /\ UNCHANGED ddOthers
    /\ dd_pc = "prepare"
    /\ \E w \in {"None", Timeout}, b \in {"None", WebDriverError},
          s \in {"None", WebDriverError} :
         LET ops == IF w # "None" THEN <<Call("wait_clickable", w)>>
                    ELSE <<Call("wait_clickable", w), Call("remove_backdrop", b),
                           Call("scroll", s)>>
             x == IF w # "None" THEN w ELSE s
         IN  /\ (w # "None") => (b = "None" /\ s = "None")
             /\ dd_ops' = dd_ops \o ops
             /\ dd_exc' = x
             /\ dd_pc' = IF x = "None" THEN "by_value" ELSE "handler"
    /\ UNCHANGED <<dd_step, dd_hasValue, dd_hasText, dd_shots>>

\* dropdown.select_by_value(option_value)
DdSelectByValue ==
    /\ UNCHANGED ddOthers
    /\ dd_pc = "by_value"
    /\ \E x \in SelectOutcomes(dd_hasValue) :
         /\ dd_ops' = Append(dd_ops, Call("select_by_value", x))
         /\ IF x = "None"
            THEN dd_pc' = "returned" /\ UNCHANGED dd_exc
            ELSE IF OptionNotFound(x)
            THEN dd_pc' = "by_text" /\ UNCHANGED dd_exc
            ELSE dd_pc' = "handler" /\ dd_exc' = x
    /\ UNCHANGED <<dd_step, dd_hasValue, dd_hasText, dd_shots>>

\* dropdown.select_by_visible_text(option_text)
DdSelectByText ==
    /\ UNCHANGED ddOthers
    /\ dd_pc = "by_text"
    /\ \E x \in SelectOutcomes(dd_hasText) :
         /\ dd_ops' = Append(dd_ops, Call("select_by_visible_text", x))
         /\ IF x = "None"
            THEN dd_pc' = "returned" /\ UNCHANGED dd_exc
            ELSE IF OptionNotFound(x)
            THEN dd_pc' = "script" /\ UNCHANGED dd_exc
            ELSE dd_pc' = "handler" /\ dd_exc' = x
    /\ UNCHANGED <<dd_step, dd_hasValue, dd_hasText, dd_shots>>

\* The scripted assignment of the value, then the synthetic change event.
DdScript ==
    /\ UNCHANGED ddOthers
    /\ dd_pc = "script"
    /\ \E a \in {"None", WebDriverError}, c \in {"None", WebDriverError} :
         LET ops == IF a # "None" THEN <<Call("script_assign", a)>>
                    ELSE <<Call("script_assign", a), Call("change_event", c)>>
             x == IF a # "None" THEN a ELSE c
         IN  /\ (a # "None") => c = "None"
             /\ dd_ops' = dd_ops \o ops
             /\ dd_exc' = x
             /\ dd_pc' = IF x = "None" THEN "returned" ELSE "handler"
    /\ UNCHANGED <<dd_step, dd_hasValue, dd_hasText, dd_shots>>

\* The outer except clause: screenshot, then re-raise.
DdHandler ==
    /\ UNCHANGED ddOthers
    /\ dd_pc = "handler"
    /\ dd_shots' = dd_shots + 1
    /\ dd_pc' = "raised"
    /\ UNCHANGED <<dd_step, dd_hasValue, dd_hasText, dd_ops, dd_exc>>

DropdownNext ==
    DdPrepare \/ DdSelectByValue \/ DdSelectByText \/ DdScript \/ DdHandler

----------------------------------------------------------------------------
(* _execute_robust_step: the step retrier *)

\* The largest max_retries explored.
MaxRetriesBound == 3

\* Which of the optional callables the caller supplied.
RobustConfigs ==
    [recovery : BOOLEAN, submit : BOOLEAN, success : BOOLEAN, failure : BOOLEAN]

\* The calls of the try body of one attempt, in the order of the code.
RobustStages_recoveryAlways(attempt, has) ==
    (IF has.recovery THEN <<"recovery">> ELSE <<>>)
    \o <<"action">>
    \o (IF has.submit THEN <<"submit">> ELSE <<>>)
    \o (IF has.success THEN <<"success_wait">> ELSE <<>>)

RobustStages(attempt, has) ==
    (IF attempt > 0 /\ has.recovery THEN <<"recovery">> ELSE <<>>)
    \o <<"action">>
    \o (IF has.submit THEN <<"submit">> ELSE <<>>)
    \o (IF has.success THEN <<"success_wait">> ELSE <<>>)

\* The calls made when stage k raises x (k = 0: no stage raises).
RobustBodyCalls(stages, k, x) ==
    [i \in 1..(IF k = 0 THEN Len(stages) ELSE k) |->
        Call(stages[i], IF i = k THEN x ELSE "None")]

\* What the try body raises.
RobustBodyExc(k, x) == IF k = 0 THEN "None" ELSE x

\* The secondary wait for the failure condition: detected, timed out, or
\* ended by another exception of the browser.
FailureWaitOutcomes == {"None", Timeout, WebDriverError}

\* The secondary wait is made in the TimeoutException clause when a failure
\* condition was supplied.
FailureWaitMade(bx, has) == bx = Timeout /\ has.failure

\* An iteration whose non-timeout exception is taken as success.
RobustOutcome_swallow(bx, has, f, attempt, max) ==
    LET last == attempt = max - 1
        vsf == [kind |-> "raise", exc |-> VerificationStepFailed]
        retry == [kind |-> "retry", exc |-> "None"]
    IN  IF bx # Timeout THEN [kind |-> "return", exc |-> "None"]
        ELSE IF has.failure
        THEN (IF f = "None" THEN retry
              ELSE IF f = Timeout THEN (IF last THEN vsf ELSE retry)
              ELSE [kind |-> "raise", exc |-> f])
        ELSE IF last THEN vsf ELSE retry

\* How an iteration of the for loop ends: "return", "retry" (on to the
\* sleep and the next attempt), or "raise" of an exception.
\*   bx the exception of the try body, f the outcome of the secondary wait
RobustOutcome(bx, has, f, attempt, max) ==
    LET last == attempt = max - 1
        vsf == [kind |-> "raise", exc |-> VerificationStepFailed]
        retry == [kind |-> "retry", exc |-> "None"]
    IN  IF bx = "None" THEN [kind |-> "return", exc |-> "None"]
        ELSE IF bx = Timeout /\ has.failure
        THEN (IF f = "None" THEN retry
              ELSE IF f = Timeout THEN (IF last THEN vsf ELSE retry)
              ELSE [kind |-> "raise", exc |-> f])
        ELSE IF last THEN vsf ELSE retry

\* Screenshots of one iteration: none when the body went through or the
\* expected failure condition was detected or the secondary wait raised.
RobustShots(bx, has, f) ==
    IF bx = "None" THEN 0
    ELSE IF bx = Timeout /\ has.failure
    THEN (IF f = Timeout THEN 1 ELSE 0)
    ELSE 1

RobustInit ==
    /\ rs_pc = "loop"
    /\ rs_max \in 0..MaxRetriesBound
    /\ rs_has \in RobustConfigs
    /\ rs_attempt = 0
    /\ rs_last = <<>>
    /\ rs_actions = 0
    /\ rs_shots = 0
    /\ rs_exc = "None"
    /\ rs_ran = -1

RobustIdle ==
    /\ rs_pc = "idle"
    /\ rs_max = DEFAULT_RETRIES
    /\ rs_has = [recovery |-> FALSE, submit |-> FALSE, success |-> FALSE,
                 failure |-> FALSE]
    /\ rs_attempt = 0
    /\ rs_last = <<>>
    /\ rs_actions = 0
    /\ rs_shots = 0
    /\ rs_exc = "None"
    /\ rs_ran = -1

\* One iteration of `for attempt in range(max_retries)`.
RsAttempt ==
    /\ UNCHANGED rsOthers
    /\ rs_pc = "loop"
    /\ rs_attempt < rs_max
    /\ LET stages == RobustStages(rs_attempt, rs_has) IN
       \E k \in 0..Len(stages), x \in {Timeout, NotInteractable},
          f \in FailureWaitOutcomes :
         LET bx == RobustBodyExc(k, x)
             body == RobustBodyCalls(stages, k, x)
             calls == IF FailureWaitMade(bx, rs_has)
                      THEN Append(body, Call("failure_wait", f)) ELSE body
             out == RobustOutcome(bx, rs_has, f, rs_attempt, rs_max)
         IN  /\ k = 0 => x = Timeout
             /\ ~FailureWaitMade(bx, rs_has) => f = "None"
             /\ rs_last' = calls
             /\ rs_ran' = rs_attempt
             /\ rs_actions' = rs_actions
                   + Cardinality({i \in 1..Len(body) : body[i].op = "action"})
             /\ rs_shots' = rs_shots + RobustShots(bx, rs_has, f)
             /\ rs_exc' = out.exc
             /\ rs_pc' = IF out.kind = "return" THEN "returned"
                         ELSE IF out.kind = "raise" THEN "raised" ELSE "loop"
             /\ rs_attempt' = IF out.kind = "retry" THEN rs_attempt + 1 ELSE rs_attempt
    /\ UNCHANGED <<rs_max, rs_has>>

\* After the loop: the final-failure screenshot and VerificationStepFailed.
RsExhausted ==
    /\ UNCHANGED rsOthers
    /\ rs_pc = "loop"
    /\ rs_attempt >= rs_max
    /\ rs_shots' = rs_shots + 1
    /\ rs_exc' = VerificationStepFailed
    /\ rs_pc' = "raised"
    /\ UNCHANGED <<rs_max, rs_has, rs_attempt, rs_last, rs_actions, rs_ran>>

RobustNext == RsAttempt \/ RsExhausted

----------------------------------------------------------------------------
(* check_name (api_v1): the `except Exception` clause and the browser-died
   signal *)

\* A message is a sequence of pieces of text; `a in b` on messages is
\* Contains, as for addresses.
MsgPieces == {"Browse", "browse", "context has been discarded", "Message:"}

MaxMsgLen == 3

Messages == UNION { [1..n -> MsgPieces] : n \in 0..MaxMsgLen }

\* The literal the clause looks for.
BROWSER_DIED_SIGNAL == <<"Browse", "context has been discarded">>

\* str.lower() on the pieces that occur.
LowerPiece(p) ==
    CASE p = "Browse" -> "browse"
      [] p = "Message:" -> "message:"
      [] OTHER -> p

LowerMsg(msg) == [i \in 1..Len(msg) |-> LowerPiece(msg[i])]

\* `if "Browse context has been discarded" in str(e).lower()`
UnexpectedEnvelopeError(msg) ==
    IF Contains(LowerMsg(msg), BROWSER_DIED_SIGNAL)
    THEN "critical_browser_error"
    ELSE "unexpected"

EnvelopeInit ==
    /\ ev_pc = "handler"
    /\ ev_class \in {WebDriverError, PlainException}
    /\ ev_msg \in Messages
    /\ ev_response = NoResponse

EnvelopeIdle ==
    /\ ev_pc = "idle"
    /\ ev_class = PlainException
    /\ ev_msg = <<>>
    /\ ev_response = NoResponse

\* The last except clause of check_name builds the failure envelope.
EvHandle ==
    /\ UNCHANGED evOthers
    /\ ev_pc = "handler"
    /\ EnvelopeError(ev_class) = "unexpected"
    /\ ev_response' = [success |-> FALSE, data |-> "None",
                       error |-> UnexpectedEnvelopeError(ev_msg)]
    /\ ev_pc' = "returned"
    /\ UNCHANGED <<ev_class, ev_msg>>

EnvelopeNext == EvHandle

----------------------------------------------------------------------------
(* _save_screenshot_on_error, called from an except clause that re-raises *)

\* os.makedirs("Error Screenshots", exist_ok=True): it goes through, or the
\* directory cannot be created, or the name is taken by a file.
DirOutcomes == {"ok", "PermissionError", "FileExistsError"}

\* The session handed in: a live one, one whose browser is gone, or None.
SessionStates == {"live", "dead", "none"}

\* driver.save_screenshot(filename) inside the try of the helper.
CaptureExc(session, write) ==
    IF session = "none" THEN AttributeError
    ELSE IF session = "dead" THEN WebDriverError
    ELSE "None"

\* `except Exception as e` of the helper takes whatever the capture raises.
CaptureCaught(x) == x # "None"

\* What leaves the helper: only what is raised outside its try.
HelperExc(dir) == IF dir = "ok" THEN "None" ELSE dir

\* What leaves the caller's except clause `...; _save_screenshot_on_error(
\* ...); raise`: the bare raise is reached only when the helper returned.
CallerRaises(orig, helperExc) == IF helperExc = "None" THEN orig ELSE helperExc

ScreenshotInit ==
    /\ ss_pc = "makedirs"
    /\ ss_dir \in DirOutcomes
    /\ ss_session \in SessionStates
    /\ ss_write \in {"ok", "fail"}
    /\ ss_orig \in StepExcs
    /\ ss_exc = "None"
    /\ ss_log = <<>>
    /\ ss_out = "None"

ScreenshotIdle ==
    /\ ss_pc = "idle"
    /\ ss_dir = "ok"
    /\ ss_session = "live"
    /\ ss_write = "ok"
    /\ ss_orig = Timeout
    /\ ss_exc = "None"
    /\ ss_log = <<>>
    /\ ss_out = "None"

\* Lines 29-32: directory, timestamp, file name.
SsMakeDirs ==
    /\ UNCHANGED ssOthers
    /\ ss_pc = "makedirs"
    /\ ss_exc' = HelperExc(ss_dir)
    /\ ss_pc' = IF HelperExc(ss_dir) = "None" THEN "capture" ELSE "raised"
    /\ UNCHANGED <<ss_dir, ss_session, ss_write, ss_orig, ss_log, ss_out>>

\* Lines 33-37: the capture and its except clause; save_screenshot returns
\* False when the file cannot be written, which the helper does not look at.
SsCapture ==
    /\ UNCHANGED ssOthers
    /\ ss_pc = "capture"
    /\ ss_log' = Append(ss_log,
                        IF CaptureCaught(CaptureExc(ss_session, ss_write))
                        THEN "Failed to save screenshot"
                        ELSE "Saved error screenshot")
    /\ ss_pc' = "returned"
    /\ UNCHANGED <<ss_dir, ss_session, ss_write, ss_orig, ss_exc, ss_out>>

\* The caller's except clause goes on after the helper.
SsCallerRaise ==
    /\ UNCHANGED ssOthers
    /\ ss_pc \in {"returned", "raised"}
    /\ ss_out' = CallerRaises(ss_orig, ss_exc)
    /\ ss_pc' = "propagated"
    /\ UNCHANGED <<ss_dir, ss_session, ss_write, ss_orig, ss_exc, ss_log>>

ScreenshotNext == SsMakeDirs \/ SsCapture \/ SsCallerRaise

----------------------------------------------------------------------------
vars == <<clkVars, stVars, capVars, lgVars, nicVars, scVars, cnVars, rqVars, apVars, lrVars, ddVars, rsVars, evVars, ssVars>>

InitClick ==
    /\ ClickInit /\ SendTextIdle /\ CaptchaIdle /\ LoginIdle /\ NicIdle
    /\ ScrapeIdle /\ CheckNameIdle /\ RequestsIdle /\ AppIdle /\ LoginRequiredIdle /\ DropdownIdle /\ RobustIdle /\ EnvelopeIdle /\ ScreenshotIdle
SpecClick == InitClick /\ [][ClickNext]_vars

InitSendText ==
    /\ SendTextInit /\ ClickIdle /\ CaptchaIdle /\ LoginIdle /\ NicIdle
    /\ ScrapeIdle /\ CheckNameIdle /\ RequestsIdle /\ AppIdle /\ LoginRequiredIdle /\ DropdownIdle /\ RobustIdle /\ EnvelopeIdle /\ ScreenshotIdle
SpecSendText == InitSendText /\ [][SendTextNext]_vars

InitCaptcha ==
    /\ CaptchaInit /\ ClickIdle /\ SendTextIdle /\ LoginIdle /\ NicIdle
    /\ ScrapeIdle /\ CheckNameIdle /\ RequestsIdle /\ AppIdle /\ LoginRequiredIdle /\ DropdownIdle /\ RobustIdle /\ EnvelopeIdle /\ ScreenshotIdle
SpecCaptcha == InitCaptcha /\ [][CaptchaNext]_vars

InitLogin ==
    /\ LoginInit /\ ClickIdle /\ SendTextIdle /\ CaptchaIdle /\ NicIdle
    /\ ScrapeIdle /\ CheckNameIdle /\ RequestsIdle /\ AppIdle /\ LoginRequiredIdle /\ DropdownIdle /\ RobustIdle /\ EnvelopeIdle /\ ScreenshotIdle
SpecLogin == InitLogin /\ [][LoginNext]_vars

InitNic ==
    /\ NicInit /\ ClickIdle /\ SendTextIdle /\ CaptchaIdle /\ LoginIdle
    /\ ScrapeIdle /\ CheckNameIdle /\ RequestsIdle /\ AppIdle /\ LoginRequiredIdle /\ DropdownIdle /\ RobustIdle /\ EnvelopeIdle /\ ScreenshotIdle
SpecNic == InitNic /\ [][NicNext]_vars

InitScrape ==
    /\ ScrapeInit /\ ClickIdle /\ SendTextIdle /\ CaptchaIdle /\ LoginIdle
    /\ NicIdle /\ CheckNameIdle /\ RequestsIdle /\ AppIdle /\ LoginRequiredIdle /\ DropdownIdle /\ RobustIdle /\ EnvelopeIdle /\ ScreenshotIdle
SpecScrape == InitScrape /\ [][ScrapeNext]_vars

InitCheckName ==
    /\ CheckNameInit /\ ClickIdle /\ SendTextIdle /\ CaptchaIdle /\ LoginIdle
    /\ NicIdle /\ ScrapeIdle /\ RequestsIdle /\ AppIdle /\ LoginRequiredIdle /\ DropdownIdle /\ RobustIdle /\ EnvelopeIdle /\ ScreenshotIdle
SpecCheckName == InitCheckName /\ [][CheckNameNext]_vars

InitRequests ==
    /\ RequestsInit /\ ClickIdle /\ SendTextIdle /\ CaptchaIdle /\ LoginIdle
    /\ NicIdle /\ ScrapeIdle /\ CheckNameIdle /\ AppIdle /\ LoginRequiredIdle /\ DropdownIdle /\ RobustIdle /\ EnvelopeIdle /\ ScreenshotIdle
SpecRequests == InitRequests /\ [][RequestsNext]_vars

InitApp ==
    /\ AppInit /\ ClickIdle /\ SendTextIdle /\ CaptchaIdle /\ LoginIdle
    /\ NicIdle /\ ScrapeIdle /\ CheckNameIdle /\ RequestsIdle /\ LoginRequiredIdle /\ DropdownIdle /\ RobustIdle /\ EnvelopeIdle /\ ScreenshotIdle
SpecApp == InitApp /\ [][AppNext]_vars

InitLoginRequired ==
    /\ LoginRequiredInit /\ ClickIdle /\ SendTextIdle /\ CaptchaIdle /\ LoginIdle
    /\ NicIdle /\ ScrapeIdle /\ CheckNameIdle /\ RequestsIdle /\ AppIdle /\ DropdownIdle /\ RobustIdle /\ EnvelopeIdle /\ ScreenshotIdle
SpecLoginRequired == InitLoginRequired /\ [][LoginRequiredNext]_vars

InitDropdown ==
    /\ DropdownInit /\ ClickIdle /\ SendTextIdle /\ CaptchaIdle /\ LoginIdle
    /\ NicIdle /\ ScrapeIdle /\ CheckNameIdle /\ RequestsIdle /\ AppIdle /\ LoginRequiredIdle /\ RobustIdle /\ EnvelopeIdle /\ ScreenshotIdle
SpecDropdown == InitDropdown /\ [][DropdownNext]_vars

InitRobust ==
    /\ RobustInit /\ ClickIdle /\ SendTextIdle /\ CaptchaIdle /\ LoginIdle
    /\ NicIdle /\ ScrapeIdle /\ CheckNameIdle /\ RequestsIdle /\ AppIdle /\ LoginRequiredIdle /\ DropdownIdle /\ EnvelopeIdle /\ ScreenshotIdle
SpecRobust == InitRobust /\ [][RobustNext]_vars

InitEnvelope ==
    /\ EnvelopeInit /\ ClickIdle /\ SendTextIdle /\ CaptchaIdle /\ LoginIdle
    /\ NicIdle /\ ScrapeIdle /\ CheckNameIdle /\ RequestsIdle /\ AppIdle /\ LoginRequiredIdle /\ DropdownIdle /\ RobustIdle /\ ScreenshotIdle
SpecEnvelope == InitEnvelope /\ [][EnvelopeNext]_vars

InitScreenshot ==
    /\ ScreenshotInit /\ ClickIdle /\ SendTextIdle /\ CaptchaIdle /\ LoginIdle
    /\ NicIdle /\ ScrapeIdle /\ CheckNameIdle /\ RequestsIdle /\ AppIdle /\ LoginRequiredIdle /\ DropdownIdle /\ RobustIdle /\ EnvelopeIdle
SpecScreenshot == InitScreenshot /\ [][ScreenshotNext]_vars

----------------------------------------------------------------------------
(* Properties of _click_element *)

ClickNotInteractableCount ==
    Cardinality({i \in DOMAIN clk_hist : clk_hist[i].native = NotInteractable})

\* C8 (click fallback correctness): in a _click_element call whose native
\* click raised not-interactable exactly once and whose scripted click then
\* succeeded, the call has returned normally through exactly one scripted
\* click, raised nothing, and the loop index is still that of the attempt in
\* which the native click failed (no further retry was consumed).
C8_ClickFallback ==
    (/\ clk_hist # <<>>
     /\ clk_hist[Len(clk_hist)].native = NotInteractable
     /\ clk_hist[Len(clk_hist)].js = "ok"
     /\ ClickNotInteractableCount = 1)
    => /\ clk_pc = "returned"
       /\ clk_exc = "None"
       /\ clk_js = 1
       /\ clk_attempt = Len(clk_hist) - 1
       /\ Count(clk_shots, "click_error") = 0

C8_Witness ==
    /\ clk_pc = "returned"
    /\ Len(clk_hist) = 2
    /\ clk_hist[1].native = Stale
    /\ clk_hist[2].native = NotInteractable
    /\ clk_hist[2].js = "ok"
    /\ clk_js = 1

\* The attempt ended with the stale-element exception.
StaleAttempt(e) == ClickBodyExc(e) = Stale

AllAttemptsStale == \A i \in 1..Len(clk_hist) : StaleAttempt(clk_hist[i])

\* C28 (click staleness retry): at most `retries` attempts are made, each
\* resolving the locator anew; after a stale attempt the loop goes on to the
\* next attempt while attempts remain, and only stale attempts are followed
\* by another one; when all `retries` attempts were stale the call saves the
\* final-failure screenshot as its last capture and raises
\* ElementNotInteractableException.
C28_StaleRetry ==
    /\ Len(clk_hist) <= clk_retries
    /\ \A i \in 1..Len(clk_hist) : clk_hist[i].wait # "na"
    /\ \A i \in 1..(Len(clk_hist) - 1) : StaleAttempt(clk_hist[i])
    /\ (clk_hist # <<>> /\ StaleAttempt(clk_hist[Len(clk_hist)])) =>
          /\ clk_attempt = Len(clk_hist)
          /\ Len(clk_hist) < clk_retries => clk_pc = "loop"
          /\ Len(clk_hist) = clk_retries => clk_pc \in {"loop", "raised"}
    /\ (clk_pc = "raised" /\ clk_hist # <<>> /\ AllAttemptsStale) =>
          /\ Len(clk_hist) = clk_retries
          /\ clk_exc = NotInteractable
          /\ clk_shots[Len(clk_shots)] = "click_failure_final"
          /\ Count(clk_shots, "click_failure_final") = 1
          /\ Count(clk_shots, "click_error") = 0

C28_Witness ==
    /\ clk_pc = "raised"
    /\ clk_retries = 3
    /\ Len(clk_hist) = 3
    /\ AllAttemptsStale
    /\ clk_hist[1].native = Stale
    /\ clk_hist[2].scroll = Stale
    /\ clk_exc = NotInteractable

\* The attempt failed on a transient condition: a stale element, or the
\* target not becoming clickable within the wait.
TransientAttempt(e) == ClickBodyExc(e) = Stale \/ e.wait = Timeout

\* C29 (primitives raise only after exhausting their budget): whenever
\* _click_element has raised ElementNotInteractableException after an
\* attempt that failed on a transient condition, all `retries` attempts
\* have been made.
C29_RaiseOnlyAfterBudget ==
    (/\ clk_pc = "raised"
     /\ clk_exc = NotInteractable
     /\ clk_hist # <<>>
     /\ TransientAttempt(clk_hist[Len(clk_hist)]))
    => Len(clk_hist) = clk_retries

----------------------------------------------------------------------------
(* Properties of _send_text *)

SendTextDone == st_pc \in {"returned", "raised"}

\* C9 as stated (single-fallback guarantee): a finished call with non-empty
\* text in which a readback differed from the text sent has performed exactly
\* one scripted value-assignment fallback.
C9_SingleFallbackPerCall ==
    (SendTextDone /\ ~Falsy(st_keys) /\ st_mismatch >= 1)
    => Count(st_ops, "js_value") = 1

\* C9 amended: every attempt whose readback differs from the text sent
\* performs exactly one scripted fallback, so a call performs one fallback
\* per mismatching attempt and at most `retries` of them; when no
\* stale-element error follows a mismatch, the call ends after exactly one
\* fallback, with no send_keys after it.
C9_SingleFallbackPerAttempt ==
    /\ Count(st_ops, "js_value") = st_mismatch
    /\ Count(st_ops, "js_value") <= st_retries
    /\ (SendTextDone /\ st_mismatch >= 1 /\ st_staleAfter = 0)
       => /\ Count(st_ops, "js_value") = 1
          /\ \A i, j \in DOMAIN st_ops :
               (st_ops[i] = "js_value" /\ st_ops[j] = "send_keys") => j < i

C9_Witness ==
    /\ st_pc = "returned"
    /\ st_mismatch = 1
    /\ st_staleAfter = 0
    /\ Count(st_ops, "js_value") = 1
    /\ Count(st_ops, "send_keys") = 2

\* C30 (empty text is rejected without interaction): a finished _send_text
\* call with empty or None text has made no browser call and taken no
\* screenshot, and it has ended by raising to its caller, not by a normal
\* return.
C30_EmptyTextRejected ==
    (SendTextDone /\ Falsy(st_keys)) =>
        /\ st_ops = <<>>
        /\ st_shots = <<>>
        /\ st_attempt = 0
        /\ st_pc = "raised"
        /\ st_exc # "None"

\* C35 (text-entry postcondition): when a _send_text call with non-empty
\* text has returned normally, the value of the target field is the text
\* that was passed.
C35_FieldHoldsText ==
    (st_pc = "returned" /\ ~Falsy(st_keys)) => st_field = st_keys

----------------------------------------------------------------------------
(* Properties of the failure envelope of check_name *)

\* C31 (browser-death special case): when the message of the unexpected
\* exception carries the browser-died signal, the envelope returned carries
\* the dedicated critical-browser-error message.
C31_BrowserDeathEnvelope ==
    (ev_pc = "returned" /\ Contains(ev_msg, BROWSER_DIED_SIGNAL))
    => ev_response.error = "critical_browser_error"

----------------------------------------------------------------------------
(* Properties of _save_screenshot_on_error *)

\* C32 (screenshot capture is best-effort): the helper has propagated no
\* exception, whichever part of the capture failed, and the exception that
\* leaves the caller is the error that was being reported.
C32_CaptureNeverRaises ==
    /\ ss_exc = "None"
    /\ ss_pc # "raised"
    /\ ss_pc = "propagated" => ss_out = ss_orig

----------------------------------------------------------------------------
(* Properties of handle_captcha_on_page *)

\* C1 (bounded CAPTCHA attempts): when the portal has answered every solved
\* and submitted CAPTCHA with the 'incorrect' indicator, at most N
\* solve-and-submit attempts have been made, and once N of them were answered
\* the loop has returned failure.
C1_CaptchaBoundedAttempts ==
    (cap_other = 0 /\ cap_accepted = 0)
    => /\ cap_submits <= cap_max
       /\ cap_incorrect >= cap_max => (cap_pc = "done" /\ cap_result = FALSE)

\* C2 (N-1 rejections, then acceptance): when the portal rejected the first
\* N-1 submitted CAPTCHAs as incorrect and showed no error for the N-th, the
\* loop has made exactly N solve-and-submit attempts in N iterations and has
\* returned success.
C2_CaptchaAcceptedOnNth ==
    (cap_other = 0 /\ cap_incorrect = cap_max - 1 /\ cap_accepted = 1)
    => /\ cap_pc = "done"
       /\ cap_result = TRUE
       /\ cap_submits = cap_max
       /\ cap_iter = cap_max

C2_Witness ==
    /\ cap_max = 3
    /\ cap_other = 0
    /\ cap_incorrect = 2
    /\ cap_accepted = 1
    /\ cap_submits = 3
    /\ cap_pc = "done"
    /\ cap_result = TRUE

\* C20 (CAPTCHA service failure is non-fatal): after an iteration in which
\* the solve-service call failed (network error, HTTP error or reply without
\* result), the loop has counted exactly one more attempt, the refresh
\* click was made, and the loop goes on while attempts remain and otherwise
\* returns failure; the function has not raised.
C20_SolveFailureCounted ==
    cap_lastSolve \in SolveFailures =>
        /\ cap_attempt = cap_before + 1
        /\ cap_lastRefresh # "na"
        /\ cap_lastRefresh = "None" => cap_refresh >= 1
        /\ cap_attempt < cap_max => cap_pc = "loop"
        /\ cap_attempt >= cap_max => (cap_pc = "done" /\ cap_result = FALSE)

C20_Witness ==
    /\ cap_lastSolve = "network_error"
    /\ cap_lastRefresh = "None"
    /\ cap_max = 3
    /\ cap_attempt = 2
    /\ cap_iter = 2
    /\ cap_pc = "loop"

\* C21 (CAPTCHA rejection recovery): after an iteration in which the
\* 'incorrect CAPTCHA' indicator was detected and the refresh click was
\* made, the CAPTCHA input field was empty when the refresh was clicked.
C21_FieldClearedBeforeRefresh ==
    (cap_iter > 0 /\ cap_lastSolve = "text" /\ cap_lastRefresh = "None")
    => cap_field = ""

----------------------------------------------------------------------------
(* Properties of login_to_mca_and_verify *)

\* The browser calls made after the initial login-page load (the get, its
\* DOM-ready wait and the location read; a failed get and its error
\* screenshot belong to the load).
LoginOpsAfterLoad ==
    LET k == IF \E i \in DOMAIN lg_ops : lg_ops[i] = "current_url"
             THEN CHOOSE i \in DOMAIN lg_ops :
                      /\ lg_ops[i] = "current_url"
                      /\ \A j \in 1..(i - 1) : lg_ops[j] # "current_url"
             ELSE Len(lg_ops)
    IN  SubSeq(lg_ops, k + 1, Len(lg_ops))

C4_NoPartialLogin ==
    (lg_user \in {"", PyNone} \/ lg_pass \in {"", PyNone})
    => /\ Count(lg_ops, "send_user") = 0
       /\ Count(lg_ops, "send_pass") = 0
       /\ Count(lg_ops, "captcha_loop") = 0
       /\ (lg_pc = "done" /\ lg_path = "form") => lg_result = FALSE

C4_Witness ==
    /\ lg_pc = "done"
    /\ lg_path = "form"
    /\ lg_user = ""
    /\ lg_pass = "u"
    /\ lg_imgWait = "ok"
    /\ lg_result = FALSE

\* C16 (CAPTCHA exhaustion is fatal): when handle_captcha_on_page returned
\* failure, the login routine reports failure whatever the location check
\* observed.
C16_CaptchaExhaustionFatal ==
    (lg_pc = "done" /\ lg_captcha = "failed") => lg_result = FALSE

C18_WitnessSuccess ==
    /\ lg_pc = "done"
    /\ lg_path = "home"
    /\ lg_url = "reached"
    /\ lg_result = TRUE

\* C39 (login routine never raises): whatever the browser and the CAPTCHA
\* service do, no exception leaves login_to_mca_and_verify; the routine goes
\* on until it returns, and when one of its except clauses caught an
\* exception it has returned with the success flag false.
C39_LoginNeverRaises ==
    /\ lg_raised = "None"
    /\ lg_pc \in {"start", "home", "form", "captcha", "verify", "done"}
    /\ lg_pc # "done" => ENABLED LoginNext
    /\ lg_caught # "none" => (lg_pc = "done" /\ lg_result = FALSE)

C39_Witness ==
    /\ lg_pc = "done"
    /\ lg_caught = "unexpected"
    /\ lg_captcha = "ok"
    /\ lg_url = "timeout"
    /\ lg_result = FALSE

C39_WitnessNoneCaught ==
    /\ lg_pc = "done"
    /\ lg_caught = "none"
    /\ lg_path = "form"
    /\ lg_result = TRUE

----------------------------------------------------------------------------
(* Properties of select_nic_codes_dynamic *)

\* C5 (one Add, after all codes): the Add action is issued at most once, and
\* only when every requested code's checkbox step has completed; it is never
\* issued once a code's step has failed; and a call in which no code's step
\* failed has issued it exactly once when it ends.
C5_SingleAddAfterAllCodes ==
    /\ nic_addCalls <= 1
    /\ nic_addCalls = 1 => nic_done = Len(NicCodes(nic_raw))
    /\ nic_stepFailed => nic_addCalls = 0
    /\ (nic_pc \in {"returned", "raised"} /\ ~nic_stepFailed) => nic_addCalls = 1

C5_Witness ==
    /\ nic_pc = "returned"
    /\ NicCodes(nic_raw) = <<"A", "B", "C">>
    /\ nic_done = 3
    /\ nic_addCalls = 1

\* The position of the first occurrence of a code in the requested list.
FirstAt(codes, code) ==
    CHOOSE i \in 1..Len(codes) :
        codes[i] = code /\ \A j \in 1..(i - 1) : codes[j] # code

\* The checkboxes clicked so far: each once, each still checked, and in the
\* order in which the caller's list first names them; the codes whose step
\* completed are checked, and all of them once the routine has returned.
NicCheckedSoFar ==
    LET codes == NicCodes(nic_raw) IN
    /\ nic_done = nic_idx
    /\ \A i \in 1..nic_done : codes[i] \in nic_checked
    /\ nic_pc = "returned" => \A i \in 1..Len(codes) : codes[i] \in nic_checked
    /\ \A i \in 1..Len(nic_clicks) :
         /\ nic_clicks[i] \in nic_checked
         /\ \E k \in 1..nic_done : codes[k] = nic_clicks[i]
    /\ \A i, j \in 1..Len(nic_clicks) :
         i < j => FirstAt(codes, nic_clicks[i]) < FirstAt(codes, nic_clicks[j])

\* A step clicks a checkbox only if it was unchecked, the checkbox is the one
\* of the code next in the caller's list, and no checkbox loses its check.
NicClickOnlyUnchecked ==
    /\ nic_checked \subseteq nic_checked'
    /\ nic_clicks' # nic_clicks =>
         \E code \in {NicCodes(nic_raw)[nic_idx + 1]} :
            /\ code \notin nic_checked
            /\ nic_clicks' = Append(nic_clicks, code)
            /\ nic_checked' = nic_checked \cup {code}
    /\ nic_checked' # nic_checked => nic_clicks' # nic_clicks

\* C23 (checkbox monotonicity): a checkbox is clicked only when it was
\* observed unchecked, so none is ever toggled off; the codes are handled in
\* the caller's order, duplicates included, and when the routine returns
\* normally the checkbox of every requested code is checked.
C23_CheckboxMonotonic ==
    /\ []NicCheckedSoFar
    /\ [][NicClickOnlyUnchecked]_vars

C23_Witness ==
    /\ nic_pc = "returned"
    /\ NicCodes(nic_raw) = <<"A", "B", "A">>
    /\ nic_clicks = <<"A", "B">>
    /\ nic_checked = {"A", "B"}

C23_WitnessAlreadyChecked ==
    /\ nic_pc = "returned"
    /\ NicCodes(nic_raw) = <<"C", "A">>
    /\ nic_clicks = <<"C">>
    /\ nic_checked = {"A", "C"}

----------------------------------------------------------------------------
(* Properties of _select_dropdown_option *)

\* The three selection strategies, and the call that ends the third.
Strategies == {"select_by_value", "select_by_visible_text", "script_assign"}

\* The call log entries of the strategies, in the order they were made.
StrategyCalls == SelectSeq(dd_ops, LAMBDA c : c.op \in Strategies)

\* C24 (dropdown fallback order): value-match is the first strategy tried;
\* visible-text-match is tried only right after value-match reported the
\* option not found; the scripted assignment is tried only right after both
\* matches reported not found, and the change event only after the
\* assignment went through; a strategy that failed in any other way is the
\* last call made.
C24_DropdownFallbackOrder ==
    LET sc == StrategyCalls IN
    /\ Len(sc) <= 3
    /\ Len(sc) >= 1 => sc[1].op = "select_by_value"
    /\ Len(sc) >= 2 => /\ sc[2].op = "select_by_visible_text"
                       /\ sc[1].exc = NoSuchElement
    /\ Len(sc) >= 3 => /\ sc[3].op = "script_assign"
                       /\ sc[2].exc = NoSuchElement
    /\ \A i \in 1..Len(dd_ops) :
         /\ dd_ops[i].op = "change_event" =>
              /\ i > 1
              /\ dd_ops[i - 1] = Call("script_assign", "None")
         /\ (dd_ops[i].op \in Strategies /\ dd_ops[i].exc \notin {"None", NoSuchElement})
              => /\ i = Len(dd_ops)
                 /\ dd_pc \in {"handler", "raised"}
                 /\ dd_exc = dd_ops[i].exc

C24_Witness ==
    /\ dd_pc = "returned"
    /\ Len(StrategyCalls) = 3
    /\ dd_ops[Len(dd_ops)] = Call("change_event", "None")

C24_WitnessOtherFailure ==
    /\ dd_pc = "raised"
    /\ Len(StrategyCalls) = 1
    /\ StrategyCalls[1].exc = Stale
    /\ dd_shots = 1

----------------------------------------------------------------------------
(* Properties of _execute_robust_step *)

\* The place of a call in the order recovery, action, submit, success wait,
\* secondary wait.
StageRank(op) ==
    CASE op = "recovery" -> 1
      [] op = "action" -> 2
      [] op = "submit" -> 3
      [] op = "success_wait" -> 4
      [] OTHER -> 5

\* The latest attempt made the call op and it did not raise.
WentThrough(op) == \E i \in 1..Len(rs_last) : rs_last[i] = Call(op, "None")

\* The latest attempt made the call op.
Made(op) == \E i \in 1..Len(rs_last) : rs_last[i].op = op

\* C25 (per-attempt ordering of the retrier): the calls of an attempt are
\* made in the order recovery, action, submit, success wait, each at most
\* once; recovery is not run on the first attempt and, when supplied, is
\* the first call of every later attempt, the action following only when it
\* went through; submit is run only when the action of the same attempt
\* went through, and the success wait only after the submit, when supplied,
\* went through.
C25_AttemptOrder ==
    /\ \A i, j \in 1..Len(rs_last) :
         i < j => StageRank(rs_last[i].op) < StageRank(rs_last[j].op)
    /\ rs_ran = 0 => ~Made("recovery")
    /\ (rs_ran > 0 /\ rs_has.recovery) =>
         /\ rs_last[1].op = "recovery"
         /\ Made("action") => WentThrough("recovery")
    /\ ~rs_has.recovery => ~Made("recovery")
    /\ rs_ran >= 0 /\ ~(rs_ran > 0 /\ rs_has.recovery) => rs_last[1].op = "action"
    /\ Made("submit") => (rs_has.submit /\ WentThrough("action"))
    /\ Made("success_wait") =>
         /\ rs_has.success
         /\ WentThrough("action")
         /\ rs_has.submit => WentThrough("submit")

C25_Witness ==
    /\ rs_pc = "returned"
    /\ rs_ran = 1
    /\ rs_last = <<Call("recovery", "None"), Call("action", "None"),
                   Call("submit", "None"), Call("success_wait", "None")>>

C25_WitnessActionRaised ==
    /\ rs_ran = 2
    /\ rs_has.submit
    /\ rs_last = <<Call("recovery", "None"), Call("action", NotInteractable)>>
    /\ rs_pc = "raised"
    /\ rs_exc = VerificationStepFailed

\* The latest attempt ended in the unexpected state: its success wait timed
\* out and the supplied failure condition was not detected within the
\* secondary wait.
UnexpectedState ==
    /\ rs_has.failure
    /\ \E i \in 1..Len(rs_last) : rs_last[i] = Call("success_wait", Timeout)
    /\ \E i \in 1..Len(rs_last) : rs_last[i] = Call("failure_wait", Timeout)

\* C26 (unexpected state is immediately fatal): when an attempt ended in the
\* unexpected state, the step has raised VerificationStepFailed on that very
\* attempt and no further attempt is made, whatever attempts remain.
C26_UnexpectedStateFatal ==
    UnexpectedState =>
        /\ rs_pc = "raised"
        /\ rs_exc = VerificationStepFailed
        /\ rs_attempt = rs_ran

\* The try body of the latest attempt raised an exception other than
\* TimeoutException.
BodyRaisedOther ==
    \E i \in 1..Len(rs_last) :
        rs_last[i].op # "failure_wait" /\ rs_last[i].exc \notin {"None", Timeout}

\* C27 (bounded budget of the retrier): the action has been run at most
\* max_retries times; after an attempt whose body raised a non-timeout
\* exception the loop goes on to the next attempt while attempts remain;
\* and when the call has raised on or after its last attempt, it raised
\* VerificationStepFailed.
C27_BoundedBudget ==
    /\ rs_actions <= rs_max
    /\ rs_attempt <= rs_max
    /\ (BodyRaisedOther /\ rs_ran < rs_max - 1) =>
          (rs_pc = "loop" /\ rs_attempt = rs_ran + 1)
    /\ (rs_pc = "raised" /\ rs_ran >= rs_max - 1) =>
          rs_exc = VerificationStepFailed

\* C36 (retrier success soundness): the call has returned normally only
\* when, in the attempt it ended with, the action and the submit, when
\* supplied, went through and the success condition, when supplied, was
\* observed within its wait; with max_retries = 0 the action is never run
\* and the call ends by raising VerificationStepFailed.
C36_SuccessSound ==
    /\ rs_pc = "returned" =>
         /\ rs_ran = rs_attempt
         /\ rs_exc = "None"
         /\ WentThrough("action")
         /\ rs_has.submit => WentThrough("submit")
         /\ rs_has.success => WentThrough("success_wait")
         /\ \A i \in 1..Len(rs_last) : rs_last[i].exc = "None"
    /\ rs_max = 0 =>
         /\ rs_actions = 0
         /\ rs_last = <<>>
         /\ rs_pc \in {"loop", "raised"}
         /\ rs_pc = "raised" => rs_exc = VerificationStepFailed

C36_Witness ==
    /\ rs_pc = "returned"
    /\ rs_max = 3
    /\ rs_ran = 2
    /\ rs_actions = 3
    /\ rs_has.submit /\ rs_has.success
    /\ WentThrough("success_wait")

C36_WitnessNoBudget ==
    /\ rs_max = 0
    /\ rs_pc = "raised"
    /\ rs_exc = VerificationStepFailed
    /\ rs_actions = 0

----------------------------------------------------------------------------
(* Properties of scrape_all_tabs *)

\* The tab was activated and its table read.
TabReadable(e) ==
    /\ e.load = "None"
    /\ e.click \in {<<ClickOk>>, <<ClickObscured>>, <<ClickStale, ClickOk>>}
    /\ e.table = "rows"

\* The tab was activated and the presence wait for its table timed out.
TabTableAbsent(e) ==
    /\ e.load = "None"
    /\ e.click \in {<<ClickOk>>, <<ClickObscured>>, <<ClickStale, ClickOk>>}
    /\ e.table = Timeout

\* The tab element never became clickable.
TabNotActivated(e) ==
    /\ e.load = "None"
    /\ e.click = <<ClickNeverClickable>>

\* C6 (partial-failure isolation, table): when all three tabs were processed,
\* exactly one table never appeared and the other two tabs were readable,
\* the scrape does not raise, the record holds None for that key and the
\* rows read for the two other keys, and the call returns that record.
C6_TableAbsentIsolated ==
    \A k \in 1..3 :
      (/\ Len(sc_env) = 3
       /\ TabTableAbsent(sc_env[k])
       /\ \A j \in (1..3) \ {k} : TabReadable(sc_env[j]))
      => /\ sc_pc \in {"loop", "returned"}
         /\ sc_exc = "None"
         /\ sc_idx = 3
         /\ sc_result[TabKeys[k]] = NoneValue
         /\ \A j \in (1..3) \ {k} :
              sc_result[TabKeys[j]] = RowsValue(sc_env[j].rows)

C6_Witness ==
    /\ sc_pc = "returned"
    /\ Len(sc_env) = 3
    /\ TabReadable(sc_env[1])
    /\ TabTableAbsent(sc_env[2])
    /\ TabReadable(sc_env[3])
    /\ sc_result["name_similarity"] = NoneValue
    /\ sc_result["error"].kind = "rows"
    /\ sc_result["trademark"].kind = "rows"

\* C7 (partial-failure isolation, tab activation): when a tab's element never
\* became clickable, the scrape has not raised and the record holds None for
\* that tab's key.
C7_TabActivationIsolated ==
    \A k \in 1..Len(sc_env) :
      TabNotActivated(sc_env[k])
      => /\ sc_pc # "raised"
         /\ sc_result[TabKeys[k]] = NoneValue

----------------------------------------------------------------------------
(* Properties of check_name and initialize_browser *)

\* C10 (session release on every exit path): once check_name has returned,
\* a browser session that was created is closed; and a session created by an
\* initialize_browser call that failed is closed as soon as that call raised.
C10_SessionReleased ==
    /\ cn_pc = "returned" => cn_session # "open"
    /\ cn_initFailed => cn_session # "open"
    /\ (cn_pc = "returned" /\ cn_session = "closed") => cn_quits >= 1

C10_Witness ==
    /\ cn_pc = "returned"
    /\ cn_session = "closed"
    /\ cn_response.success = FALSE
    /\ cn_exc = NotInteractable
    /\ Len(cn_log) = 3

C10_WitnessInitFailure ==
    /\ cn_pc = "returned"
    /\ cn_initFailed
    /\ cn_session = "closed"

\* C34 (session released at most once): on every path through
\* initialize_browser and check_name, quit has been invoked on the session
\* at most once.
C34_QuitAtMostOnce == cn_quits <= 1

\* C37 (form reachable after login): when login was required and succeeded
\* and initialize_browser has returned the session, the session's location
\* contains SPICE_FORM_URL.
C37_FormAfterLogin ==
    (cn_login = "succeeded" /\ cn_driver) => Contains(cn_afterLogin, SPICE_FORM_URL)

----------------------------------------------------------------------------
(* Properties of concurrent check_name requests *)

\* C11 (session exclusivity under concurrency): every request that obtained
\* a driver holds a session it created itself, no two requests hold the same
\* session, and every browser operation (navigation, form step, name entry,
\* scrape, quit) was issued on a session by the request that created it.
C11_SessionExclusive ==
    /\ \A r \in Reqs : rq_driver[r] # 0 => rq_owner[rq_driver[r]] = r
    /\ \A r1, r2 \in Reqs : (r1 # r2 /\ rq_driver[r1] # 0) => rq_driver[r1] # rq_driver[r2]
    /\ \A u \in rq_uses : rq_owner[u[2]] = u[1]

C11_Witness ==
    /\ \A r \in Reqs : rq_driver[r] # 0
    /\ \E u1, u2 \in rq_uses : u1[1] # u2[1] /\ u1[3] = "scrape" /\ u2[3] = "form"
    /\ \E r \in Reqs : rq_pc[r] = "done"
    /\ \E r \in Reqs : rq_pc[r] = "scrape"

\* C12 (per-request configuration isolation): BASE_CONFIG still refers to
\* its own meta dictionary, whose company_name is the one loaded at start-up,
\* and the name a request typed into the form is the formatted form of that
\* request's own company name.
C12_ConfigIsolated ==
    /\ rq_top[0] = 0
    /\ rq_meta[0] = BaseCompanyName
    /\ \A r \in Reqs :
         rq_typed[r] # NoName => rq_typed[r] = format_company_name(rq_name[r])

C12_Witness ==
    /\ \A r \in Reqs : rq_typed[r] # NoName
    /\ \E r1, r2 \in Reqs : rq_typed[r1] # rq_typed[r2]
    /\ rq_meta[0] = BaseCompanyName

----------------------------------------------------------------------------
(* Properties of the check_name wrappers and the result analysis *)

\* C13 (uniform envelope): whatever the outcome, the value a check_name
\* wrapper hands to its caller holds a success flag, a data entry when the
\* flag is true (a failure value without a data entry reads as data null),
\* and an error string when the flag is false.
C13_UniformEnvelope ==
    ap_pc = "done" =>
        /\ "success" \in ap_response.keys
        /\ ap_response.success = "true" => "data" \in ap_response.keys
        /\ ap_response.success = "false" => "error" \in ap_response.keys

\* C17 (end-to-end blocked name): when the automation succeeded, every tab
\* was read and the scraped error table holds a blocking entry, the app's
\* check_name answers NOT VALID with 3 to 7 suggested names, none of them
\* equal to the input name up to letter case.
C17_BlockedNameVerdict ==
    ( /\ ap_pc = "done"
      /\ ap_variant = "app_main"
      /\ \A k \in DOMAIN ap_scraped : ap_scraped[k].kind = "rows"
      /\ has_blocking_error(ap_scraped.error.rows) )
    => /\ ap_response.verdict = "NOT VALID"
       /\ Len(ap_response.names) >= MinItems
       /\ Len(ap_response.names) <= MaxItems
       /\ \A i \in 1..Len(ap_response.names) :
            Lower(ap_response.names[i]) # Lower(ap_name)

\* C33 (deterministic fallback): when the suggestion service was unavailable
\* or its every attempt failed, so that it answered with the fallback set,
\* analyse_async has raised nothing and the verdict is NOT VALID with the
\* fallback names as recommended names.
C33_FallbackVerdict ==
    (ap_llm = FallbackDict /\ ap_pc \in {"respond", "done"}) =>
        /\ ap_exc = "None"
        /\ ap_verdict = "NOT VALID"
        /\ ap_pc = "done" => ap_response.names = FallbackNames

\* C38 (no VALID verdict from an unread error tab): in the app's check_name,
\* when the scrape record holds None for the 'error' tab, no VALID verdict is
\* ever formed and the value handed to the caller is the failure value.
C38_UnreadErrorTabNotValid ==
    (ap_variant = "app_main" /\ ap_scraped.error = NoneValue) =>
        /\ ap_verdict # "VALID"
        /\ ap_pc = "done" =>
             /\ ap_response.verdict # "VALID"
             /\ ap_response.success = "false"

C38_Witness ==
    /\ ap_variant = "app_main"
    /\ ap_scraped.error = NoneValue
    /\ ap_scraped.name_similarity # NoneValue
    /\ ap_exc = TypeError
    /\ ap_pc = "done"

----------------------------------------------------------------------------
(* Properties of the step sequence of check_name *)

Range(f) == {f[i] : i \in DOMAIN f}

\* C14 (probe only): no step that was run acts on an element of the final
\* submission, and whenever the scrape was started the step just before it
\* was the auto-check trigger, whose only target is the auto-check button.
C14_ProbeOnly ==
    /\ \A i \in 1..Len(cn_log) :
         Range(StepTargets(cn_log[i])) \cap FinalSubmissionTargets = {}
    /\ \A i \in 1..Len(cn_log) :
         cn_log[i] = "scrape_all_tabs" =>
            /\ i > 1
            /\ cn_log[i - 1] = "handle_name_check_and_submit"
            /\ StepTargets(cn_log[i - 1]) = <<"AUTO_CHECK_BUTTON">>

C14_Witness ==
    /\ cn_pc = "returned"
    /\ cn_response.success = TRUE
    /\ Len(cn_log) = 10
    /\ cn_log[10] = "scrape_all_tabs"

\* C15 (failed login blocks form-filling): once login was required and
\* login_to_mca_and_verify reported failure, initialize_browser has raised
\* its login-failure exception, the session is closed, check_name never got
\* the driver and no form step was run.
C15_FailedLoginBlocksForm ==
    cn_login = "failed" =>
        /\ cn_initFailed
        /\ cn_exc = LoginFailedExc(cn_variant)
        /\ cn_session = "closed"
        /\ ~cn_driver
        /\ cn_log = <<>>

C15_Witness ==
    /\ cn_login = "failed"
    /\ cn_pc = "returned"
    /\ cn_response.success = FALSE
    /\ cn_quits >= 1

----------------------------------------------------------------------------
(* Properties of the step sequence of check_name *)

\* The order of section 4.3: dismiss dialog, type, class, category,
\* sub-category, open code dialog, select codes, enter name, trigger
\* auto-check, then the scrape.
StepOrder ==
    <<"click_okay_button", "select_company_type", "select_company_class",
      "select_company_category", "select_company_subcategory",
      "open_nic_code_dialog", "select_nic_codes_dynamic", "enter_company_name",
      "handle_name_check_and_submit", "scrape_all_tabs">>

\* The steps started so far are an initial part of the fixed order, and all
\* of them but the last one returned normally.
StepsInOrder ==
    /\ Len(cn_log) <= Len(StepOrder)
    /\ \A i \in 1..Len(cn_log) : cn_log[i] = StepOrder[i]
    /\ Len(cn_log) <= cn_step
    /\ cn_exc # "None" => cn_pc \in {"handler", "finally", "returned"}

\* A step that starts another step or the scrape.
StartsStep == cn_log' # cn_log

\* C22 (fixed step order with fail-stop): the steps are started in the
\* fixed order, each only after the one before it returned normally, and
\* once a step or the initialisation has raised no step and no scrape is
\* started any more.
C22_FixedOrderFailStop ==
    /\ []StepsInOrder
    /\ [][(cn_exc # "None" => ~StartsStep)
          /\ (StartsStep => /\ cn_log' = Append(cn_log, StepOrder[Len(cn_log) + 1])
                            /\ cn_step = Len(cn_log) + 1)]_vars

C22_Witness ==
    /\ cn_pc = "returned"
    /\ cn_exc = VerificationStepFailed
    /\ ~cn_initFailed
    /\ Len(cn_log) = 7
    /\ cn_log[7] = "select_nic_codes_dynamic"
    /\ cn_response.success = FALSE

C22_WitnessAllSteps ==
    /\ cn_pc = "returned"
    /\ cn_exc = "None"
    /\ cn_log = StepOrder

----------------------------------------------------------------------------
(* Properties of check_login_required *)

OnTarget == Contains(lr_url, SPICE_FORM_URL)
OnLoginPage == Contains(lr_url, LOGIN_URL) \/ Contains(lr_url, <<"fologin.html">>)

\* C19 (login-required detection): when check_login_required has returned,
\* its answer is: location contains the target -> not required, also when
\* the location shows a login indicator; else location is the login page ->
\* required; else login elements were found -> required; else (nothing
\* found, or the probe raised) -> not required.  The probe is made only
\* when neither location test matched.
C19_LoginRequiredDecision ==
    lr_pc = "done" =>
        /\ OnTarget => (lr_result = "not_required" /\ lr_probe = "na")
        /\ (~OnTarget /\ OnLoginPage) => (lr_result = "required" /\ lr_probe = "na")
        /\ (~OnTarget /\ ~OnLoginPage) =>
              /\ lr_probe \in ProbeOutcomes
              /\ lr_probe = "found" => lr_result = "required"
              /\ lr_probe \in {"none", "raised"} => lr_result = "not_required"

C19_Witness ==
    /\ lr_pc = "done"
    /\ OnTarget
    /\ OnLoginPage
    /\ lr_result = "not_required"

C19_WitnessProbeRaised ==
    /\ lr_pc = "done"
    /\ lr_probe = "raised"
    /\ lr_result = "not_required"

====
